---- MODULE Spec2Model ----
(***************************************************************************)
(* Transaction extraction and validation engine of the bank statement      *)
(* converter: api/utils/transaction-extractor and the validator module.    *)
(*                                                                         *)
(* Representation.  A statement text is a sequence of raw lines; a raw     *)
(* line is a sequence of whitespace-separated tokens plus a flag telling   *)
(* whether the gaps between its tokens are two blanks wide (column layout)  *)
(* or one blank.  A token is named by a TLA+ string and spelled, character  *)
(* by character, by Spell; every test the code makes on characters         *)
(* (regular expression classes, toLowerCase, includes, parseFloat) is      *)
(* computed on the spelling.  Money is counted in cents.                    *)
(***************************************************************************)
EXTENDS Integers, Sequences, FiniteSets, TLC

\* ------------------------------------------------------------------------
\* Characters and strings
\* ------------------------------------------------------------------------

\* The spelling of every token of the input vocabulary.
Spell ==
  "01/15/2024" :> <<"0", "1", "/", "1", "5", "/", "2", "0", "2", "4">> @@
  "01/10/2024" :> <<"0", "1", "/", "1", "0", "/", "2", "0", "2", "4">> @@
  "01/12/2024" :> <<"0", "1", "/", "1", "2", "/", "2", "0", "2", "4">> @@
  "12/31/2031" :> <<"1", "2", "/", "3", "1", "/", "2", "0", "3", "1">> @@
  "15.01.2024" :> <<"1", "5", ".", "0", "1", ".", "2", "0", "2", "4">> @@
  "1/5/24" :> <<"1", "/", "5", "/", "2", "4">> @@
  "2024-01-20" :> <<"2", "0", "2", "4", "-", "0", "1", "-", "2", "0">> @@
  "01-16-2024" :> <<"0", "1", "-", "1", "6", "-", "2", "0", "2", "4">> @@
  "Grocery" :> <<"G", "r", "o", "c", "e", "r", "y">> @@
  "Store" :> <<"S", "t", "o", "r", "e">> @@
  "Purchase" :> <<"P", "u", "r", "c", "h", "a", "s", "e">> @@
  "Salary" :> <<"S", "a", "l", "a", "r", "y">> @@
  "Deposit" :> <<"D", "e", "p", "o", "s", "i", "t">> @@
  "Coffee" :> <<"C", "o", "f", "f", "e", "e">> @@
  "Wire" :> <<"W", "i", "r", "e">> @@
  "Cheque" :> <<"C", "h", "e", "q", "u", "e">> @@
  "Refund" :> <<"R", "e", "f", "u", "n", "d">> @@
  "ATM" :> <<"A", "T", "M">> @@
  "Transfer" :> <<"T", "r", "a", "n", "s", "f", "e", "r">> @@
  "Out" :> <<"O", "u", "t">> @@
  "Interest" :> <<"I", "n", "t", "e", "r", "e", "s", "t">> @@
  "Payment" :> <<"P", "a", "y", "m", "e", "n", "t">> @@
  "Fee" :> <<"F", "e", "e">> @@
  "Date" :> <<"D", "a", "t", "e">> @@
  "Description" :> <<"D", "e", "s", "c", "r", "i", "p", "t", "i", "o", "n">> @@
  "Debit" :> <<"D", "e", "b", "i", "t">> @@
  "Credit" :> <<"C", "r", "e", "d", "i", "t">> @@
  "Balance" :> <<"B", "a", "l", "a", "n", "c", "e">> @@
  "Opening" :> <<"O", "p", "e", "n", "i", "n", "g">> @@
  "Balance:" :> <<"B", "a", "l", "a", "n", "c", "e", ":">> @@
  "Closing" :> <<"C", "l", "o", "s", "i", "n", "g">> @@
  "Page" :> <<"P", "a", "g", "e">> @@
  "Thank" :> <<"T", "h", "a", "n", "k">> @@
  "you" :> <<"y", "o", "u">> @@
  "45.67" :> <<"4", "5", ".", "6", "7">> @@
  "1,954.33" :> <<"1", ",", "9", "5", "4", ".", "3", "3">> @@
  "0.00" :> <<"0", ".", "0", "0">> @@
  "100.00" :> <<"1", "0", "0", ".", "0", "0">> @@
  "20.00" :> <<"2", "0", ".", "0", "0">> @@
  "5.00" :> <<"5", ".", "0", "0">> @@
  "500.00" :> <<"5", "0", "0", ".", "0", "0">> @@
  "480.00" :> <<"4", "8", "0", ".", "0", "0">> @@
  "575.00" :> <<"5", "7", "5", ".", "0", "0">> @@
  "N/A" :> <<"N", "/", "A">> @@
  "D" :> <<"D">> @@
  "C" :> <<"C">>


\* The spelling of the keywords and labels the code searches for.
Keyword ==
  "withdrawal" :> <<"w", "i", "t", "h", "d", "r", "a", "w", "a", "l">> @@
  "payment" :> <<"p", "a", "y", "m", "e", "n", "t">> @@
  "purchase" :> <<"p", "u", "r", "c", "h", "a", "s", "e">> @@
  "fee" :> <<"f", "e", "e">> @@
  "charge" :> <<"c", "h", "a", "r", "g", "e">> @@
  "debit" :> <<"d", "e", "b", "i", "t">> @@
  "transfer out" :> <<"t", "r", "a", "n", "s", "f", "e", "r", " ", "o", "u", "t">> @@
  "atm" :> <<"a", "t", "m">> @@
  "service charge" :> <<"s", "e", "r", "v", "i", "c", "e", " ", "c", "h", "a", "r", "g", "e">> @@
  "interest" :> <<"i", "n", "t", "e", "r", "e", "s", "t">> @@
  "dividend" :> <<"d", "i", "v", "i", "d", "e", "n", "d">> @@
  "transfer" :> <<"t", "r", "a", "n", "s", "f", "e", "r">> @@
  "wire" :> <<"w", "i", "r", "e">> @@
  "ach" :> <<"a", "c", "h">> @@
  "cash withdrawal" :> <<"c", "a", "s", "h", " ", "w", "i", "t", "h", "d", "r", "a", "w", "a", "l">> @@
  "bill pay" :> <<"b", "i", "l", "l", " ", "p", "a", "y">> @@
  "deposit" :> <<"d", "e", "p", "o", "s", "i", "t">> @@
  "credit" :> <<"c", "r", "e", "d", "i", "t">> @@
  "pos" :> <<"p", "o", "s">> @@
  "card purchase" :> <<"c", "a", "r", "d", " ", "p", "u", "r", "c", "h", "a", "s", "e">> @@
  "date" :> <<"d", "a", "t", "e">> @@
  "description" :> <<"d", "e", "s", "c", "r", "i", "p", "t", "i", "o", "n">> @@
  "balance" :> <<"b", "a", "l", "a", "n", "c", "e">> @@
  "transaction" :> <<"t", "r", "a", "n", "s", "a", "c", "t", "i", "o", "n">> @@
  "amount" :> <<"a", "m", "o", "u", "n", "t">> @@
  "reference" :> <<"r", "e", "f", "e", "r", "e", "n", "c", "e">> @@
  "page" :> <<"p", "a", "g", "e">> @@
  "statement" :> <<"s", "t", "a", "t", "e", "m", "e", "n", "t">> @@
  "account" :> <<"a", "c", "c", "o", "u", "n", "t">> @@
  "opening" :> <<"o", "p", "e", "n", "i", "n", "g">> @@
  "beginning" :> <<"b", "e", "g", "i", "n", "n", "i", "n", "g">> @@
  "previous" :> <<"p", "r", "e", "v", "i", "o", "u", "s">> @@
  "closing" :> <<"c", "l", "o", "s", "i", "n", "g">> @@
  "ending" :> <<"e", "n", "d", "i", "n", "g">> @@
  "current" :> <<"c", "u", "r", "r", "e", "n", "t">> @@
  "balance:" :> <<"b", "a", "l", "a", "n", "c", "e", ":">> @@
  "Date" :> <<"D", "a", "t", "e">> @@
  "Description" :> <<"D", "e", "s", "c", "r", "i", "p", "t", "i", "o", "n">> @@
  "Debit" :> <<"D", "e", "b", "i", "t">> @@
  "Credit" :> <<"C", "r", "e", "d", "i", "t">> @@
  "Balance" :> <<"B", "a", "l", "a", "n", "c", "e">> @@
  "Transaction" :> <<"T", "r", "a", "n", "s", "a", "c", "t", "i", "o", "n">> @@
  "Amount" :> <<"A", "m", "o", "u", "n", "t">> @@
  "Reference" :> <<"R", "e", "f", "e", "r", "e", "n", "c", "e">> @@
  "Page" :> <<"P", "a", "g", "e">> @@
  "Statement" :> <<"S", "t", "a", "t", "e", "m", "e", "n", "t">> @@
  "Account" :> <<"A", "c", "c", "o", "u", "n", "t">>


Digit == {"0", "1", "2", "3", "4", "5", "6", "7", "8", "9"}

DigitVal ==
  "0" :> 0 @@ "1" :> 1 @@ "2" :> 2 @@ "3" :> 3 @@ "4" :> 4 @@
  "5" :> 5 @@ "6" :> 6 @@ "7" :> 7 @@ "8" :> 8 @@ "9" :> 9

UpperToLower ==
  "A" :> "a" @@ "B" :> "b" @@ "C" :> "c" @@ "D" :> "d" @@ "E" :> "e" @@
  "F" :> "f" @@ "G" :> "g" @@ "H" :> "h" @@ "I" :> "i" @@ "J" :> "j" @@
  "K" :> "k" @@ "L" :> "l" @@ "M" :> "m" @@ "N" :> "n" @@ "O" :> "o" @@
  "P" :> "p" @@ "Q" :> "q" @@ "R" :> "r" @@ "S" :> "s" @@ "T" :> "t" @@
  "U" :> "u" @@ "V" :> "v" @@ "W" :> "w" @@ "X" :> "x" @@ "Y" :> "y" @@
  "Z" :> "z"

\* String.prototype.toLowerCase
toLowerCase(s) ==
  [i \in 1..Len(s) |-> IF s[i] \in DOMAIN UpperToLower THEN UpperToLower[s[i]] ELSE s[i]]

\* String.prototype.includes: k occurs in s as a contiguous substring.
includes(s, k) ==
  \E i \in 0..(Len(s) - Len(k)) : \A j \in 1..Len(k) : s[i + j] = k[j]

\* The characters of a run of tokens, the gaps between them gap blanks wide.
RECURSIVE Blanks(_)
Blanks(n) == IF n = 0 THEN <<>> ELSE <<" ">> \o Blanks(n - 1)

RECURSIVE JoinToks(_, _)
JoinToks(toks, gap) ==
  IF Len(toks) = 0 THEN <<>>
  ELSE IF Len(toks) = 1 THEN Spell[toks[1]]
  ELSE Spell[toks[1]] \o Blanks(gap) \o JoinToks(Tail(toks), gap)

AllDigits(s) == \A i \in 1..Len(s) : s[i] \in Digit

\* The value of a run of digits (parseInt / parseFloat on digits).
RECURSIVE DigitsValue(_)
DigitsValue(s) ==
  IF Len(s) = 0 THEN 0
  ELSE 10 * DigitsValue(SubSeq(s, 1, Len(s) - 1)) + DigitVal[s[Len(s)]]

\* s with every occurrence of the character c removed: s.replace(/c/g, '')
RECURSIVE RemoveChar(_, _)
RemoveChar(s, c) ==
  IF Len(s) = 0 THEN <<>>
  ELSE IF Head(s) = c THEN RemoveChar(Tail(s), c)
  ELSE <<Head(s)>> \o RemoveChar(Tail(s), c)

\* ------------------------------------------------------------------------
\* JavaScript values: null, undefined, NaN and numbers (in cents)
\* ------------------------------------------------------------------------

Null == [t |-> "null", v |-> 0]
Undef == [t |-> "undef", v |-> 0]
NaN == [t |-> "nan", v |-> 0]
Num(n) == [t |-> "num", v |-> n]

IsNum(x) == x.t = "num"
\* ToBoolean: null, undefined, NaN and 0 are falsy.
Truthy(x) == x.t = "num" /\ x.v # 0
\* ToNumber: null is 0, undefined is NaN.
ToNumber(x) == IF x.t = "num" THEN x ELSE IF x.t = "null" THEN Num(0) ELSE NaN
Plus(x, y) ==
  IF ToNumber(x).t = "num" /\ ToNumber(y).t = "num"
  THEN Num(ToNumber(x).v + ToNumber(y).v) ELSE NaN
Minus(x, y) ==
  IF ToNumber(x).t = "num" /\ ToNumber(y).t = "num"
  THEN Num(ToNumber(x).v - ToNumber(y).v) ELSE NaN
Abs(n) == IF n < 0 THEN -n ELSE n
\* Math.abs
MathAbs(x) == IF ToNumber(x).t = "num" THEN Num(Abs(ToNumber(x).v)) ELSE NaN

\* ------------------------------------------------------------------------
\* The character classes of the line patterns, on whole tokens
\* ------------------------------------------------------------------------

DateSep == {"/", "-", "."}

\* \d{1,2}[\/\-\.]\d{1,2}[\/\-\.]\d{2,4}
GenericDate(s) ==
  \E a \in 1..2, b \in 1..2, c \in 2..4 :
    /\ Len(s) = a + 1 + b + 1 + c
    /\ AllDigits(SubSeq(s, 1, a))
    /\ s[a + 1] \in DateSep
    /\ AllDigits(SubSeq(s, a + 2, a + 1 + b))
    /\ s[a + b + 2] \in DateSep
    /\ AllDigits(SubSeq(s, a + b + 3, a + b + 2 + c))

\* \d{2}\/\d{2}\/\d{4}
StrictDate(s) ==
  /\ Len(s) = 10
  /\ AllDigits(SubSeq(s, 1, 2)) /\ s[3] = "/"
  /\ AllDigits(SubSeq(s, 4, 5)) /\ s[6] = "/"
  /\ AllDigits(SubSeq(s, 7, 10))

\* [\d,]+\.\d{2}
AmountShape(s) ==
  /\ Len(s) >= 4
  /\ \A i \in 1..(Len(s) - 3) : s[i] \in Digit \cup {","}
  /\ s[Len(s) - 2] = "."
  /\ s[Len(s) - 1] \in Digit /\ s[Len(s)] \in Digit

IsAmountTok(tok) == AmountShape(Spell[tok])
AllAmounts(toks) == \A i \in 1..Len(toks) : IsAmountTok(toks[i])

\* ------------------------------------------------------------------------
\* The line patterns.  A pattern is applied to a line given as its tokens
\* and its gap width; the result tells whether it matches and what its
\* capture groups 1..5 hold (a group is the run of tokens it captured, the
\* empty run when the group did not take part or does not exist).
\* ------------------------------------------------------------------------

NoGroups == [i \in 1..5 |-> <<>>]
NoMatch == [ok |-> FALSE, g |-> NoGroups]
Matched(g1, g2, g3, g4, g5) ==
  [ok |-> TRUE, g |-> <<g1, g2, g3, g4, g5>>]

GapOf(wide) == IF wide THEN 2 ELSE 1

\* generic.standard: date, lazy description, three amounts to the end of line
GenStandard(toks) ==
  LET n == Len(toks) IN
  IF n >= 5 /\ GenericDate(Spell[toks[1]]) /\ AllAmounts(SubSeq(toks, n - 2, n))
  THEN Matched(<<toks[1]>>, SubSeq(toks, 2, n - 3), <<toks[n - 2]>>, <<toks[n - 1]>>, <<toks[n]>>)
  ELSE NoMatch

\* generic.simple: date, lazy description, two amounts to the end of line
GenSimple(toks) ==
  LET n == Len(toks) IN
  IF n >= 4 /\ GenericDate(Spell[toks[1]]) /\ AllAmounts(SubSeq(toks, n - 1, n))
  THEN Matched(<<toks[1]>>, SubSeq(toks, 2, n - 2), <<toks[n - 1]>>, <<toks[n]>>, <<>>)
  ELSE NoMatch

\* generic.combined: date, lazy description, amount, D or C, amount
GenCombined(toks) ==
  LET n == Len(toks) IN
  IF /\ n >= 5 /\ GenericDate(Spell[toks[1]])
     /\ IsAmountTok(toks[n - 2]) /\ toks[n - 1] \in {"D", "C"} /\ IsAmountTok(toks[n])
  THEN Matched(<<toks[1]>>, SubSeq(toks, 2, n - 3), <<toks[n - 2]>>, <<toks[n - 1]>>, <<toks[n]>>)
  ELSE NoMatch

\* What may follow the description in us_bank.standard, ph_bank.standard and
\* ph_bank.bpi: (amount)?\s*(amount)?\s+(amount)\s*$ after the \s+ that ends
\* the description.  With both optional groups absent, the two \s+ need two
\* blanks between the description and the amount.
OptionalTail(rest, wide) ==
  AllAmounts(rest) /\ (Len(rest) \in {2, 3} \/ (Len(rest) = 1 /\ wide))

\* The description of width characters exactly (.{40}), or of any width when
\* width = 0 (.+?).  In a wide line one of the two blanks before and, when
\* the tail leaves one over, after the description may belong to it.
DescriptionFits(desc, rest, wide, width) ==
  \/ width = 0
  \/ \E lead \in 0..(GapOf(wide) - 1), trail \in 0..(GapOf(wide) - 1) :
       /\ Len(rest) = 1 => trail = 0
       /\ lead + Len(JoinToks(desc, GapOf(wide))) + trail = width

OptionalColumns(toks, wide, width) ==
  LET n == Len(toks)
      Ends == {k \in 2..(n - 1) :
                 /\ OptionalTail(SubSeq(toks, k + 1, n), wide)
                 /\ DescriptionFits(SubSeq(toks, 2, k), SubSeq(toks, k + 1, n), wide, width)}
  IN IF n >= 3 /\ StrictDate(Spell[toks[1]]) /\ Ends # {}
     THEN LET k == CHOOSE e \in Ends : \A f \in Ends : e <= f   \* lazy: shortest first
              rest == SubSeq(toks, k + 1, n)
          IN CASE Len(rest) = 3 -> Matched(<<toks[1]>>, SubSeq(toks, 2, k), <<rest[1]>>, <<rest[2]>>, <<rest[3]>>)
               [] Len(rest) = 2 -> Matched(<<toks[1]>>, SubSeq(toks, 2, k), <<rest[1]>>, <<>>, <<rest[2]>>)
               [] OTHER -> Matched(<<toks[1]>>, SubSeq(toks, 2, k), <<>>, <<>>, <<rest[1]>>)
     ELSE NoMatch

\* A caller-supplied pattern for statements without a balance column:
\* date, lazy description, amount, D or C.  It has four groups.
NoBalanceCombined(toks) ==
  LET n == Len(toks) IN
  IF /\ n >= 4 /\ GenericDate(Spell[toks[1]])
     /\ IsAmountTok(toks[n - 1]) /\ toks[n] \in {"D", "C"}
  THEN Matched(<<toks[1]>>, SubSeq(toks, 2, n - 2), <<toks[n - 1]>>, <<toks[n]>>, <<>>)
  ELSE NoMatch

BpiWidth == 40

\* A pattern of a caller whose amount column is any run of non-blanks:
\* date, lazy description, (\S+), balance
TextAmountSimple(toks) ==
  LET n == Len(toks) IN
  IF n >= 4 /\ GenericDate(Spell[toks[1]]) /\ IsAmountTok(toks[n])
  THEN Matched(<<toks[1]>>, SubSeq(toks, 2, n - 2), <<toks[n - 1]>>, <<toks[n]>>, <<>>)
  ELSE NoMatch

\* A regular expression applied to a line: RegExp.prototype.test and
\* String.prototype.match give the same match.
RegexMatch(re, toks, wide) ==
  CASE re = "GEN_STANDARD" -> GenStandard(toks)
    [] re = "GEN_SIMPLE" -> GenSimple(toks)
    [] re = "GEN_COMBINED" -> GenCombined(toks)
    [] re = "OPT_STANDARD" -> OptionalColumns(toks, wide, 0)
    [] re = "PH_BPI" -> OptionalColumns(toks, wide, BpiWidth)
    [] re = "NOBAL_COMBINED" -> NoBalanceCombined(toks)
    [] re = "TEXT_SIMPLE" -> TextAmountSimple(toks)
    [] OTHER -> NoMatch

\* ------------------------------------------------------------------------
\* Field normalizers
\* ------------------------------------------------------------------------

\* ^(\d{2})S(\d{2})S(\d{4})$ for one separator S
TwoTwoFour(s, sep) ==
  /\ Len(s) = 10
  /\ AllDigits(SubSeq(s, 1, 2)) /\ s[3] = sep
  /\ AllDigits(SubSeq(s, 4, 5)) /\ s[6] = sep
  /\ AllDigits(SubSeq(s, 7, 10))

\* ^(\d{4})-(\d{2})-(\d{2})$
IsoShape(s) ==
  /\ Len(s) = 10
  /\ AllDigits(SubSeq(s, 1, 4)) /\ s[5] = "-"
  /\ AllDigits(SubSeq(s, 6, 7)) /\ s[8] = "-"
  /\ AllDigits(SubSeq(s, 9, 10))

\* normalizeDate with the first group of a date taken as its day
normalizeDayFirst(dateStr) ==
  IF Len(dateStr) = 0 THEN <<>>
  ELSE IF \E sep \in {"/", "-", "."} : TwoTwoFour(dateStr, sep)
  THEN SubSeq(dateStr, 7, 10) \o <<"-">> \o SubSeq(dateStr, 4, 5) \o <<"-">> \o SubSeq(dateStr, 1, 2)
  ELSE dateStr

\* normalizeDate: the first of the listed shapes that matches decides; a
\* four-digit first part is returned as is, otherwise part3-part1-part2.
\* An empty dateStr is falsy and yields null, which a date of the model
\* writes as the empty sequence.
normalizeDate(dateStr) ==
  IF Len(dateStr) = 0 THEN <<>>
  ELSE IF \E sep \in {"/", "-", "."} : TwoTwoFour(dateStr, sep)
  THEN SubSeq(dateStr, 7, 10) \o <<"-">> \o SubSeq(dateStr, 1, 2) \o <<"-">> \o SubSeq(dateStr, 4, 5)
  ELSE IF IsoShape(dateStr)
  THEN SubSeq(dateStr, 1, 4) \o <<"-">> \o SubSeq(dateStr, 6, 7) \o <<"-">> \o SubSeq(dateStr, 9, 10)
  ELSE dateStr

\* parseFloat: the value, in cents, of the longest prefix of s that is a
\* decimal number; NaN when that prefix has no digit.  Digits after the
\* second decimal are below a cent and dropped.
IntPrefixLen(s) ==
  IF \E i \in 1..Len(s) : s[i] \notin Digit
  THEN (CHOOSE i \in 1..Len(s) : s[i] \notin Digit /\ \A j \in 1..(i - 1) : s[j] \in Digit) - 1
  ELSE Len(s)

parseFloat(s) ==
  LET n == IntPrefixLen(s)
      whole == SubSeq(s, 1, n)
      after == IF n < Len(s) /\ s[n + 1] = "." THEN SubSeq(s, n + 2, Len(s)) ELSE <<>>
      frac == SubSeq(after, 1, IntPrefixLen(after))
      f1 == IF Len(frac) >= 1 THEN DigitVal[frac[1]] ELSE 0
      f2 == IF Len(frac) >= 2 THEN DigitVal[frac[2]] ELSE 0
  IN IF Len(whole) = 0 /\ Len(frac) = 0 THEN NaN
     ELSE Num(100 * DigitsValue(whole) + 10 * f1 + f2)

\* cleaned.replace(',', '.'): the first comma only
ReplaceFirstComma(s) ==
  IF \E i \in 1..Len(s) : s[i] = ","
  THEN LET i == CHOOSE k \in 1..Len(s) : s[k] = "," /\ \A j \in 1..(k - 1) : s[j] # ","
       IN [s EXCEPT ![i] = "."]
  ELSE s

\* parseAmount: group is the captured amount (the empty run when the group
\* is undefined).  The vocabulary has no currency symbols or blanks inside a
\* token, so the first replace leaves the token as it is.
parseAmount(group, format) ==
  IF Len(group) = 0 THEN Null
  ELSE LET amountStr == Spell[group[1]]
           cleaned == IF format.thousandsSeparator = ","
                      THEN RemoveChar(amountStr, ",")
                      ELSE IF format.thousandsSeparator = "."
                      THEN ReplaceFirstComma(RemoveChar(amountStr, "."))
                      ELSE amountStr
           amount == parseFloat(cleaned)
       IN IF amount.t = "nan" THEN Null ELSE amount

\* isDebitTransaction
DebitKeywords ==
  <<"withdrawal", "payment", "purchase", "fee", "charge", "debit", "transfer out", "atm">>

\* A keyword search that keeps the case of the description
isDebitExactCase(description) ==
  \E i \in 1..Len(DebitKeywords) :
    includes(JoinToks(description, 1), Keyword[DebitKeywords[i]])

isDebitTransaction(description) ==
  \E i \in 1..Len(DebitKeywords) :
    includes(toLowerCase(JoinToks(description, 1)), Keyword[DebitKeywords[i]])

\* categorizeTransaction: the categories in the order of the object's keys
Categories ==
  << [category |-> "FEE", keywords |-> <<"fee", "charge", "service charge">>],
     [category |-> "INTEREST", keywords |-> <<"interest", "dividend">>],
     [category |-> "TRANSFER", keywords |-> <<"transfer", "wire", "ach">>],
     [category |-> "ATM", keywords |-> <<"atm", "cash withdrawal">>],
     [category |-> "PAYMENT", keywords |-> <<"payment", "bill pay">>],
     [category |-> "DEPOSIT", keywords |-> <<"deposit", "credit">>],
     [category |-> "PURCHASE", keywords |-> <<"purchase", "pos", "card purchase">>] >>

CategoryMatches(lowerDesc, c) ==
  \E i \in 1..Len(Categories[c].keywords) : includes(lowerDesc, Keyword[Categories[c].keywords[i]])

\* The last of the categories that match instead of the first
LastCategory(hits, currentType) ==
  IF hits # {} THEN Categories[CHOOSE c \in hits : \A d \in hits : c >= d].category
  ELSE IF currentType # "" THEN currentType ELSE "OTHER"

FirstCategory(hits, currentType) ==
  IF hits # {} THEN Categories[CHOOSE c \in hits : \A d \in hits : c <= d].category
  ELSE IF currentType # "" THEN currentType ELSE "OTHER"

\* currentType is "" when the transaction has no type yet (null).
categorizeTransaction(description, currentType) ==
  FirstCategory({c \in 1..Len(Categories) :
                   CategoryMatches(toLowerCase(JoinToks(description, 1)), c)}, currentType)

\* ------------------------------------------------------------------------
\* Bank formats
\* ------------------------------------------------------------------------

\* A pattern of a format: its name (the key in format.patterns), the regular
\* expression, and whether it is a RegExp object (a pattern read from the
\* JSON configuration is a string).
Pattern(name, re, isRegExp) == [name |-> name, re |-> re, isRegExp |-> isRegExp]

\* getDefaultBankFormats
getDefaultBankFormats ==
  << [isObject |-> TRUE, bankId |-> "generic", bankName |-> "Generic Format",
      patterns |-> << Pattern("standard", "GEN_STANDARD", TRUE),
                      Pattern("simple", "GEN_SIMPLE", TRUE),
                      Pattern("combined", "GEN_COMBINED", TRUE) >>,
      thousandsSeparator |-> ","],
     [isObject |-> TRUE, bankId |-> "us_bank", bankName |-> "US Bank Format",
      patterns |-> << Pattern("standard", "OPT_STANDARD", TRUE) >>,
      thousandsSeparator |-> ","],
     [isObject |-> TRUE, bankId |-> "ph_bank", bankName |-> "Philippine Bank Format",
      patterns |-> << Pattern("standard", "OPT_STANDARD", TRUE),
                      Pattern("bpi", "PH_BPI", TRUE) >>,
      thousandsSeparator |-> ","] >>

\* A string given where a format object is expected: it has no patterns, no
\* bankName and no thousandsSeparator property.
StringAsFormat(id) ==
  [isObject |-> FALSE, bankId |-> id, bankName |-> "", patterns |-> <<>>,
   thousandsSeparator |-> ""]

\* undefined where a format is expected (no format found)
NoFormat ==
  [isObject |-> FALSE, bankId |-> "", bankName |-> "", patterns |-> <<>>,
   thousandsSeparator |-> ""]

\* ------------------------------------------------------------------------
\* Transactions
\* ------------------------------------------------------------------------

\* class Transaction: the fields the constructor sets.  A date is a string
\* (its characters), the empty string standing for null; a description is
\* its run of tokens; notes counts the provenance notes appended.
NewTransaction ==
  [transactionId |-> [line |-> 0, ms |-> 0],
   date |-> <<>>, description |-> <<>>,
   debit |-> Null, credit |-> Null, amount |-> Null, balance |-> Null,
   transactionType |-> "", notes |-> 0,
   processingStatus |-> "VALID", errorMessages |-> <<>>,
   rawLine |-> <<>>, lineNumber |-> 0]

\* The least element of a set of numbers: the first in the order of a loop.
MinOf(S) == CHOOSE a \in S : \A b \in S : a <= b

\* transaction.debit = amount or transaction.credit = amount
WithAmount(t, isDebit, amount) ==
  IF isDebit THEN [t EXCEPT !.debit = amount] ELSE [t EXCEPT !.credit = amount]

\* The fields a pattern kind extracts from its match m.
ExtractFields(t, name, m, format) ==
  CASE name = "standard" ->
         [t EXCEPT !.date = normalizeDate(JoinToks(m.g[1], 1)),
                   !.description = m.g[2],
                   !.debit = IF Len(m.g[3]) > 0 THEN parseAmount(m.g[3], format) ELSE Null,
                   !.credit = IF Len(m.g[4]) > 0 THEN parseAmount(m.g[4], format) ELSE Null,
                   !.balance = IF Len(m.g[5]) > 0 THEN parseAmount(m.g[5], format) ELSE Null]
    [] name = "simple" ->
         WithAmount([t EXCEPT !.date = normalizeDate(JoinToks(m.g[1], 1)),
                              !.description = m.g[2],
                              !.balance = IF Len(m.g[4]) > 0 THEN parseAmount(m.g[4], format) ELSE Null],
                    isDebitTransaction(m.g[2]), parseAmount(m.g[3], format))
    [] name = "combined" ->
         WithAmount([t EXCEPT !.date = normalizeDate(JoinToks(m.g[1], 1)),
                              !.description = m.g[2],
                              !.balance = IF Len(m.g[5]) > 0 THEN parseAmount(m.g[5], format) ELSE Null],
                    m.g[4] = <<"D">>, parseAmount(m.g[3], format))
    [] OTHER -> t

\* amount and the DEBIT/CREDIT type: a debit of 0 is not a debit here.
NetAmount(t) ==
  IF Truthy(t.debit)
  THEN [t EXCEPT !.amount = Num(-Abs(t.debit.v)), !.transactionType = "DEBIT"]
  ELSE IF Truthy(t.credit)
  THEN [t EXCEPT !.amount = Num(Abs(t.credit.v)), !.transactionType = "CREDIT"]
  ELSE t

\* transaction.transactionType = categorizeTransaction(...)
Categorized(t) ==
  [t EXCEPT !.transactionType = categorizeTransaction(t.description, t.transactionType)]

\* The patterns of the format that match the line, by their place among the
\* keys of format.patterns.
MatchingPatterns(line, format) ==
  {p \in 1..Len(format.patterns) : RegexMatch(format.patterns[p].re, line, FALSE).ok}

NoTransaction == [found |-> FALSE, transaction |-> NewTransaction]

\* A parse whose transactionId is made of the time of the parse alone
TransactionTimed(line, format, pattern, lineNumber, now) ==
  [found |-> TRUE,
   transaction |->
     Categorized(NetAmount(ExtractFields(
       [NewTransaction EXCEPT !.rawLine = line, !.lineNumber = lineNumber,
                              !.transactionId = [line |-> 0, ms |-> now]],
       pattern.name, RegexMatch(pattern.re, line, FALSE), format)))]

\* A parse that leaves the time of the parse in the notes as well
TransactionStamped(line, format, pattern, lineNumber, now) ==
  [found |-> TRUE,
   transaction |->
     Categorized(NetAmount(ExtractFields(
       [NewTransaction EXCEPT !.rawLine = line, !.lineNumber = lineNumber, !.notes = now,
                              !.transactionId = [line |-> lineNumber, ms |-> now]],
       pattern.name, RegexMatch(pattern.re, line, FALSE), format)))]

\* The body of the loop over the patterns, for the first pattern that matches
TransactionFrom(line, format, pattern, lineNumber, now) ==
  [found |-> TRUE,
   transaction |->
     Categorized(NetAmount(ExtractFields(
       [NewTransaction EXCEPT !.rawLine = line, !.lineNumber = lineNumber,
                              !.transactionId = [line |-> lineNumber, ms |-> now]],
       pattern.name, RegexMatch(pattern.re, line, FALSE), format)))]

FirstMatch(line, format, matching, lineNumber, now) ==
  IF matching = {} THEN NoTransaction
  ELSE TransactionFrom(line, format, format.patterns[MinOf(matching)], lineNumber, now)

\* parseTransactionLine: line is a cleaned line (single blanks); now is
\* Date.now().  found = FALSE is the null result.
parseTransactionLine(line, format, lineNumber, now) ==
  FirstMatch(line, format, MatchingPatterns(line, format), lineNumber, now)

\* ------------------------------------------------------------------------
\* Dates as the Date constructor reads them
\* ------------------------------------------------------------------------

IsLeap(y) == (y % 4 = 0 /\ y % 100 # 0) \/ y % 400 = 0

DaysBeforeMonth ==
  <<0, 31, 59, 90, 120, 151, 181, 212, 243, 273, 304, 334>>

\* The number of the day y-m-d, counted from 0000-01-01; a day past the end
\* of the month runs over into the next month, as Date does.
DayNumber(y, m, d) ==
  365 * y + (y + 3) \div 4 - (y + 99) \div 100 + (y + 399) \div 400
  + DaysBeforeMonth[m] + (IF m > 2 /\ IsLeap(y) THEN 1 ELSE 0) + d - 1

InvalidDate == [ok |-> FALSE, day |-> 0]

\* M/D/Y with one or two digits for month and day and two or four for the
\* year (the legacy parser; two-digit years below 50 are 20xx)
SlashDate(s) ==
  \E a \in 1..2, b \in 1..2, c \in {2, 4} :
    /\ Len(s) = a + b + c + 2
    /\ AllDigits(SubSeq(s, 1, a)) /\ s[a + 1] = "/"
    /\ AllDigits(SubSeq(s, a + 2, a + b + 1)) /\ s[a + b + 2] = "/"
    /\ AllDigits(SubSeq(s, a + b + 3, a + b + c + 2))

\* The day m/d of year y, Invalid Date when m or d is out of range
DateFromParts(y, m, d) ==
  IF m \in 1..12 /\ d \in 1..31 THEN [ok |-> TRUE, day |-> DayNumber(y, m, d)]
  ELSE InvalidDate

\* A two-digit year below 50 is 20xx, another two-digit year 19xx.
FullYear(digits) ==
  IF Len(digits) = 4 THEN DigitsValue(digits)
  ELSE IF DigitsValue(digits) < 50 THEN 2000 + DigitsValue(digits)
  ELSE 1900 + DigitsValue(digits)

\* M/D/Y with the slashes at places i and j
SlashParts(s, i, j) ==
  DateFromParts(FullYear(SubSeq(s, j + 1, Len(s))),
                DigitsValue(SubSeq(s, 1, i - 1)),
                DigitsValue(SubSeq(s, i + 1, j - 1)))

FirstSlash(s, from) == CHOOSE k \in from..(from + 1) : s[k] = "/"

\* new Date(dateStr) for the two shapes of date string the vocabulary lets
\* reach it: YYYY-MM-DD and M/D/Y.  ok = FALSE is Invalid Date (a NaN time).
NewDate(s) ==
  IF IsoShape(s)
  THEN DateFromParts(DigitsValue(SubSeq(s, 1, 4)), DigitsValue(SubSeq(s, 6, 7)),
                     DigitsValue(SubSeq(s, 9, 10)))
  ELSE IF SlashDate(s)
  THEN SlashParts(s, FirstSlash(s, 2), FirstSlash(s, FirstSlash(s, 2) + 2))
  ELSE InvalidDate

\* new Date(): the day the extraction runs
Today == [y |-> 2026, m |-> 11, d |-> 3]

\* ------------------------------------------------------------------------
\* The validator module
\* ------------------------------------------------------------------------

MAX_FUTURE_DAYS == 7
MAX_PAST_YEARS == 10
\* BALANCE_TOLERANCE is 0.02, in cents
BALANCE_TOLERANCE == 2

NoContext == [transactionIndex |-> -1, duplicateOf |-> -1]

\* An entry of a ValidationResult's errors or warnings, as addError and
\* addWarning build it: code, message, severity, context, timestamp.
Finding(code, severity, context) ==
  [code |-> code, severity |-> severity, context |-> context,
   fields |-> {"code", "message", "severity", "context", "timestamp"}]

\* new ValidationResult()
NewValidationResult == [valid |-> TRUE, errors |-> <<>>, warnings |-> <<>>]

addError(result, code, severity, context) ==
  [result EXCEPT !.valid = FALSE, !.errors = Append(@, Finding(code, severity, context))]

addWarning(result, code, severity, context) ==
  [result EXCEPT !.warnings = Append(@, Finding(code, severity, context))]

hasErrors(result) == Len(result.errors) > 0

\* Range checks that warn of an old date whatever the options say
DateRangeChecksAlways(parsedDate, allowFuture, allowOld) ==
  LET maxFutureDate == DayNumber(Today.y, Today.m, Today.d) + MAX_FUTURE_DAYS
      minPastDate == DayNumber(Today.y - MAX_PAST_YEARS, 1, 1)
      future == IF ~allowFuture /\ parsedDate > maxFutureDate
                THEN addError(NewValidationResult, "FUTURE_DATE", "HIGH", NoContext)
                ELSE NewValidationResult
  IN IF parsedDate < minPastDate
     THEN addWarning(future, "DATE_TOO_OLD", "MEDIUM", NoContext)
     ELSE future

\* The range checks of validateDate on the parsed date
DateRangeChecks(parsedDate, allowFuture, allowOld) ==
  LET maxFutureDate == DayNumber(Today.y, Today.m, Today.d) + MAX_FUTURE_DAYS
      minPastDate == DayNumber(Today.y - MAX_PAST_YEARS, 1, 1)
      future == IF ~allowFuture /\ parsedDate > maxFutureDate
                THEN addError(NewValidationResult, "FUTURE_DATE", "HIGH", NoContext)
                ELSE NewValidationResult
  IN IF ~allowOld /\ parsedDate < minPastDate
     THEN addWarning(future, "DATE_TOO_OLD", "MEDIUM", NoContext)
     ELSE future

DateVerdict(result) == [valid |-> ~hasErrors(result), error |-> result]

InvalidDateFormat ==
  [valid |-> FALSE,
   error |-> addError(NewValidationResult, "INVALID_DATE_FORMAT", "HIGH", NoContext)]

ValidateParsedDate(parsed, allowFuture, allowOld) ==
  IF ~parsed.ok THEN InvalidDateFormat
  ELSE DateVerdict(DateRangeChecks(parsed.day, allowFuture, allowOld))

\* validateDate(dateStr, options): { valid, error } with error the
\* ValidationResult.  The empty string stands for a missing date.
validateDate(dateStr, allowFuture, allowOld) ==
  IF Len(dateStr) = 0 THEN InvalidDateFormat
  ELSE ValidateParsedDate(NewDate(dateStr), allowFuture, allowOld)

UnsafeChars == {"<", ">", "{", "}"}
MinDescriptionLength == 3
MaxDescriptionLength == 500

\* validateDescription, on the characters of the description
validateDescription(description) ==
  IF Len(description) = 0
  THEN addError(NewValidationResult, "INVALID_DESCRIPTION", "MEDIUM", NoContext)
  ELSE LET r1 == IF Len(description) < MinDescriptionLength
                 THEN addWarning(NewValidationResult, "INVALID_DESCRIPTION", "LOW", NoContext)
                 ELSE NewValidationResult
           r2 == IF Len(description) > MaxDescriptionLength
                 THEN addWarning(r1, "INVALID_DESCRIPTION", "LOW", NoContext)
                 ELSE r1
       IN IF \E i \in 1..Len(description) : description[i] \in UnsafeChars
          THEN addWarning(r2, "INVALID_DESCRIPTION", "MEDIUM", NoContext)
          ELSE r2

\* ------------------------------------------------------------------------
\* The extractor's helpers
\* ------------------------------------------------------------------------

\* A raw line of the text: its tokens and whether its gaps are wide.  A line
\* without tokens is empty (wide = FALSE) or blanks only (wide = TRUE).
RawLine(toks, wide) == [toks |-> toks, wide |-> wide]
IsBlank(l) == Len(l.toks) = 0

\* cleanText(text).split('\n').  \s{2,} also spans line breaks, so a run of
\* blank lines joins the lines around it into one; the final trim of the
\* text removes blank lines at its ends; what is left has single blanks.
RECURSIVE CleanFrom(_, _, _, _)
CleanFrom(text, i, acc, join) ==
  IF i > Len(text) THEN acc
  ELSE IF IsBlank(text[i]) THEN CleanFrom(text, i + 1, acc, Len(acc) > 0)
  ELSE IF join
  THEN CleanFrom(text, i + 1, [acc EXCEPT ![Len(acc)] = @ \o text[i].toks], FALSE)
  ELSE CleanFrom(text, i + 1, Append(acc, text[i].toks), FALSE)

cleanText(text) ==
  IF \A i \in 1..Len(text) : IsBlank(text[i]) THEN << <<>> >>
  ELSE CleanFrom(text, 1, <<>>, FALSE)

HeaderKeywords ==
  <<"Date", "Description", "Debit", "Credit", "Balance", "Transaction",
    "Amount", "Reference", "Page", "Statement", "Account">>
HeaderThreshold == 2

\* A header test that takes three keywords to be a header
isHeaderLineOfThree(line) ==
  LET lowerLine == toLowerCase(JoinToks(line, 1))
      keywordCount == Cardinality({k \in 1..Len(HeaderKeywords) :
                         includes(lowerLine, toLowerCase(Keyword[HeaderKeywords[k]]))})
  IN keywordCount >= HeaderThreshold + 1

\* isHeaderLine
isHeaderLine(line) ==
  LET lowerLine == toLowerCase(JoinToks(line, 1))
      keywordCount == Cardinality({k \in 1..Len(HeaderKeywords) :
                         includes(lowerLine, toLowerCase(Keyword[HeaderKeywords[k]]))})
  IN keywordCount >= HeaderThreshold

\* All tokens of the text in reading order (\s* in the balance patterns
\* spans blanks and line breaks alike).
RECURSIVE TokenStream(_)
TokenStream(text) ==
  IF Len(text) = 0 THEN <<>> ELSE Head(text).toks \o TokenStream(Tail(text))

EndsWith(s, k) == Len(s) >= Len(k) /\ SubSeq(s, Len(s) - Len(k) + 1, Len(s)) = k

\* Label\s*Balance\s*:?\s*([\d,]+\.\d{2}) with flag i, on tokens: a token
\* ending in the label, then Balance or Balance:, then an amount.
LabelMatches(stream, label) ==
  {i \in 1..(Len(stream) - 2) :
     /\ EndsWith(toLowerCase(Spell[stream[i]]), Keyword[label])
     /\ toLowerCase(Spell[stream[i + 1]]) \in {Keyword["balance"], Keyword["balance:"]}
     /\ IsAmountTok(stream[i + 2])}

\* The first label, in the order of the list, that matches anywhere; of its
\* matches the leftmost.  null when no label matches.
RECURSIVE FirstLabelled(_, _, _)
FirstLabelled(stream, labels, k) ==
  IF k > Len(labels) THEN Null
  ELSE IF LabelMatches(stream, labels[k]) # {}
  THEN LET i == CHOOSE a \in LabelMatches(stream, labels[k]) :
                  \A b \in LabelMatches(stream, labels[k]) : a <= b
       IN parseFloat(RemoveChar(Spell[stream[i + 2]], ","))
  ELSE FirstLabelled(stream, labels, k + 1)

\* extractBalances
extractBalances(text) ==
  [opening |-> FirstLabelled(TokenStream(text), <<"opening", "beginning", "previous">>, 1),
   closing |-> FirstLabelled(TokenStream(text), <<"closing", "ending", "current">>, 1)]

\* The number of leading lines detectBankFormat looks at
DetectLines == 50
\* The number of matches that decides for a format
DetectThreshold == 3

\* Every line of the text
WholeText(text) == text

FirstLines(text) == SubSeq(text, 1, IF Len(text) < DetectLines THEN Len(text) ELSE DetectLines)

\* matchCount of a format: over the first lines and all its patterns
MatchCount(text, format) ==
  Cardinality({<<l, p>> \in (1..Len(FirstLines(text))) \X (1..Len(format.patterns)) :
                 RegexMatch(format.patterns[p].re, text[l].toks, text[l].wide).ok})

\* pattern.test is not a function when the pattern is a string
TestThrows(format) == \E p \in 1..Len(format.patterns) : ~format.patterns[p].isRegExp

GenericOrFirst(formats) ==
  IF \E i \in 1..Len(formats) : formats[i].bankId = "generic"
  THEN [threw |-> FALSE, found |-> TRUE,
        format |-> formats[CHOOSE i \in 1..Len(formats) :
                     /\ formats[i].bankId = "generic"
                     /\ \A j \in 1..(i - 1) : formats[j].bankId # "generic"]]
  ELSE IF Len(formats) > 0 THEN [threw |-> FALSE, found |-> TRUE, format |-> formats[1]]
  ELSE [threw |-> FALSE, found |-> FALSE, format |-> NoFormat]

\* detectBankFormat: found = FALSE is the undefined result, threw = TRUE
\* the TypeError of a pattern that is no RegExp.
RECURSIVE DetectFrom(_, _, _)
DetectFrom(text, formats, f) ==
  IF f > Len(formats) THEN GenericOrFirst(formats)
  ELSE IF TestThrows(formats[f]) THEN [threw |-> TRUE, found |-> FALSE, format |-> NoFormat]
  ELSE IF MatchCount(text, formats[f]) >= DetectThreshold
  THEN [threw |-> FALSE, found |-> TRUE, format |-> formats[f]]
  ELSE DetectFrom(text, formats, f + 1)

detectBankFormat(text, formats) == DetectFrom(text, formats, 1)

\* ------------------------------------------------------------------------
\* Post-processing
\* ------------------------------------------------------------------------

\* new Date(t.date): a null date is the epoch
DateOf(t) ==
  IF Len(t.date) = 0 THEN [ok |-> TRUE, day |-> DayNumber(1970, 1, 1)] ELSE NewDate(t.date)

\* dateA - dateB as the sort sees it: a NaN counts as 0.
DateDifference(dateA, dateB) ==
  IF dateA.ok /\ dateB.ok THEN dateA.day - dateB.day ELSE 0

\* The comparator of the sort
CompareDates(a, b) == DateDifference(DateOf(a), DateOf(b))

EndsRun(order, descending) == IF descending THEN order >= 0 ELSE order < 0

\* Array.prototype.sort for an array shorter than a merge run: the leading
\* run is counted (and reversed when strictly descending), the rest is
\* inserted by binary search.
RECURSIVE RunLength(_, _, _)
RunLength(arr, idx, descending) ==
  IF idx > Len(arr) THEN Len(arr)
  ELSE IF EndsRun(CompareDates(arr[idx], arr[idx - 1]), descending) THEN idx - 1
  ELSE RunLength(arr, idx + 1, descending)

Reverse(s) == [i \in 1..Len(s) |-> s[Len(s) + 1 - i]]

MakeRun(arr, run, descending) ==
  [arr |-> IF descending
           THEN Reverse(SubSeq(arr, 1, run)) \o SubSeq(arr, run + 1, Len(arr))
           ELSE arr,
   run |-> run]

CountRun(arr, descending) == MakeRun(arr, RunLength(arr, 3, descending), descending)

CountAndMakeRun(arr) ==
  IF Len(arr) < 2 THEN [arr |-> arr, run |-> Len(arr)]
  ELSE CountRun(arr, CompareDates(arr[2], arr[1]) < 0)

RECURSIVE BinarySearch(_, _, _, _)
BinarySearch(arr, pivot, left, right) ==
  IF left >= right THEN left
  ELSE IF CompareDates(pivot, arr[left + (right - left) \div 2]) < 0
  THEN BinarySearch(arr, pivot, left, left + (right - left) \div 2)
  ELSE BinarySearch(arr, pivot, left + (right - left) \div 2 + 1, right)

InsertAt(arr, start, left) ==
  SubSeq(arr, 1, left - 1) \o <<arr[start]>>
  \o SubSeq(arr, left, start - 1) \o SubSeq(arr, start + 1, Len(arr))

RECURSIVE BinaryInsertionSort(_, _)
BinaryInsertionSort(arr, start) ==
  IF start > Len(arr) THEN arr
  ELSE BinaryInsertionSort(InsertAt(arr, start, BinarySearch(arr, arr[start], 1, start)),
                           start + 1)

SortMade(made) == BinaryInsertionSort(made.arr, made.run + 1)

SortByDate(arr) == SortMade(CountAndMakeRun(arr))

\* transaction.balance = runningBalance; transaction.notes += ...
Noted(arr, i, runningBalance) ==
  [arr EXCEPT ![i].balance = runningBalance, ![i].notes = @ + 1]

\* The running balance written onto each transaction, from the opening
\* balance: runningBalance += transaction.amount || 0
RECURSIVE BackFill(_, _, _)
BackFill(arr, i, runningBalance) ==
  IF i > Len(arr) THEN arr
  ELSE BackFill(Noted(arr, i, Plus(runningBalance,
                                   IF Truthy(arr[i].amount) THEN arr[i].amount ELSE Num(0))),
                i + 1,
                Plus(runningBalance, IF Truthy(arr[i].amount) THEN arr[i].amount ELSE Num(0)))

\* A back-fill that overwrites the balances the lines carry
FillOverBalances(sorted, openingBalance) ==
  IF openingBalance.t # "null" THEN BackFill(sorted, 1, openingBalance) ELSE sorted

\* A running balance that starts from nothing
FillFromZero(sorted, openingBalance) ==
  IF (~\E i \in 1..Len(sorted) : sorted[i].balance.t # "null") /\ openingBalance.t # "null"
  THEN BackFill(sorted, 1, Num(0))
  ELSE sorted

\* The part of postProcessTransactions after the sort
FillMissingBalances(sorted, openingBalance) ==
  IF (~\E i \in 1..Len(sorted) : sorted[i].balance.t # "null") /\ openingBalance.t # "null"
  THEN BackFill(sorted, 1, openingBalance)
  ELSE sorted

\* postProcessTransactions
postProcessTransactions(transactions, openingBalance) ==
  IF Len(transactions) = 0 THEN transactions
  ELSE FillMissingBalances(SortByDate(transactions), openingBalance)

\* ------------------------------------------------------------------------
\* The extractor's validateTransaction
\* ------------------------------------------------------------------------

\* The error of a transaction with neither debit nor credit: code and
\* message only.
MissingAmount ==
  [code |-> "MISSING_AMOUNT", severity |-> "", context |-> NoContext,
   fields |-> {"code", "message"}]

ValidatedWith(transaction, dateValidation, descValidation) ==
  [valid |-> dateValidation.valid /\ (Truthy(transaction.debit) \/ Truthy(transaction.credit)),
   errors |-> (IF ~dateValidation.valid THEN dateValidation.error.errors ELSE <<>>)
              \o (IF ~Truthy(transaction.debit) /\ ~Truthy(transaction.credit)
                  THEN <<MissingAmount>> ELSE <<>>),
   warnings |-> IF hasErrors(descValidation) THEN descValidation.errors ELSE <<>>]

validateTransaction(transaction) ==
  ValidatedWith(transaction, validateDate(transaction.date, FALSE, TRUE),
                validateDescription(JoinToks(transaction.description, 1)))

\* ------------------------------------------------------------------------
\* The validator's checks over a list of transactions.  The indices in the
\* findings are those of the JavaScript array, from 0.
\* ------------------------------------------------------------------------

\* What a call gives: a ValidationResult, or a TypeError thrown on the way
Returned(result) == [threw |-> FALSE, result |-> result]
Thrown(result) == [threw |-> TRUE, result |-> result]

\* The context of a BALANCE_MISMATCH warning
MismatchContext(i, expectedBalance, actualBalance, diff) ==
  [transactionIndex |-> i, expectedBalance |-> expectedBalance,
   actualBalance |-> actualBalance, difference |-> diff]

\* if (diff > BALANCE_TOLERANCE) result.addWarning(...): the message calls
\* toFixed on expectedBalance, actualBalance and diff, and null has no
\* toFixed.  A comparison with NaN is false.
MismatchAt(result, i, expectedBalance, actualBalance, diff) ==
  IF ~(diff.t = "num" /\ diff.v > BALANCE_TOLERANCE) THEN Returned(result)
  ELSE IF actualBalance.t \in {"null", "undef"} \/ expectedBalance.t \in {"null", "undef"}
  THEN Thrown(result)
  ELSE Returned(addWarning(result, "BALANCE_MISMATCH", "MEDIUM",
                           MismatchContext(i, expectedBalance, actualBalance, diff)))

\* The body of the loop for prev = transactions[i - 1], curr = transactions[i]
BalancePair(result, i, prev, curr) ==
  IF prev.balance.t # "undef" /\ curr.balance.t # "undef" /\ curr.amount.t # "undef"
  THEN MismatchAt(result, i, Plus(prev.balance, curr.amount), curr.balance,
                  MathAbs(Minus(Plus(prev.balance, curr.amount), curr.balance)))
  ELSE Returned(result)

RECURSIVE BalanceLoop(_, _, _)
BalanceLoop(transactions, i, sofar) ==
  IF sofar.threw \/ i >= Len(transactions) THEN sofar
  ELSE BalanceLoop(transactions, i + 1,
                   BalancePair(sofar.result, i, transactions[i], transactions[i + 1]))

\* validateBalanceConsistency(transactions), transactions an array
validateBalanceConsistency(transactions) ==
  BalanceLoop(transactions, 1, Returned(NewValidationResult))

DigitChar == <<"0", "1", "2", "3", "4", "5", "6", "7", "8", "9">>

\* The decimal digits of a natural number
RECURSIVE Digits(_)
Digits(n) ==
  IF n < 10 THEN <<DigitChar[n + 1]>> ELSE Digits(n \div 10) \o <<DigitChar[(n % 10) + 1]>>

\* The digits after the point of c hundredths, without trailing zeros
Hundredths(c) ==
  IF c = 0 THEN <<>>
  ELSE IF c % 10 = 0 THEN <<".", DigitChar[(c \div 10) + 1]>>
  ELSE <<".", DigitChar[(c \div 10) + 1], DigitChar[(c % 10) + 1]>>

\* String(x), as a template literal converts a value (a number is held in
\* hundredths)
StringOf(x) ==
  CASE x.t = "null" -> <<"n", "u", "l", "l">>
    [] x.t = "undef" -> <<"u", "n", "d", "e", "f", "i", "n", "e", "d">>
    [] x.t = "nan" -> <<"N", "a", "N">>
    [] OTHER -> (IF x.v < 0 THEN <<"-">> ELSE <<>>)
                \o Digits(Abs(x.v) \div 100) \o Hundredths(Abs(x.v) % 100)

\* A key that leaves the amount out
KeyWithoutAmount(transaction) ==
  (IF Len(transaction.date) = 0 THEN StringOf(Null) ELSE transaction.date)
  \o <<"_">> \o JoinToks(transaction.description, 1)

\* `${transaction.date}_${transaction.amount}_${transaction.description}`
DuplicateKey(transaction) ==
  (IF Len(transaction.date) = 0 THEN StringOf(Null) ELSE transaction.date)
  \o <<"_">> \o StringOf(transaction.amount) \o <<"_">>
  \o JoinToks(transaction.description, 1)

\* The context of a DUPLICATE_TRANSACTION warning
DuplicateContext(index, first, transaction) ==
  [transactionIndex |-> index, duplicateOf |-> first, transaction |-> transaction]

\* seen.get(key): the index the key was set at
SeenAt(seen, key) == (CHOOSE e \in seen : e.key = key).index

\* The callback of forEach for the transaction at index, seen being the Map
RECURSIVE DuplicateLoop(_, _, _, _)
DuplicateLoop(transactions, index, seen, result) ==
  IF index >= Len(transactions) THEN Returned(result)
  ELSE IF \E e \in seen : e.key = DuplicateKey(transactions[index + 1])
  THEN DuplicateLoop(transactions, index + 1, seen,
         addWarning(result, "DUPLICATE_TRANSACTION", "MEDIUM",
           DuplicateContext(index, SeenAt(seen, DuplicateKey(transactions[index + 1])),
                            transactions[index + 1])))
  ELSE DuplicateLoop(transactions, index + 1,
         seen \cup {[key |-> DuplicateKey(transactions[index + 1]), index |-> index]},
         result)

\* detectDuplicates(transactions)
detectDuplicates(transactions) == DuplicateLoop(transactions, 0, {}, NewValidationResult)

\* MAX_TRANSACTION_AMOUNT is 999999.99, in cents
MAX_TRANSACTION_AMOUNT == 99999999

AmountRequired ==
  [valid |-> FALSE,
   error |-> addError(NewValidationResult, "INVALID_AMOUNT", "HIGH", NoContext)]

\* The checks of validateAmount on a number: negative, zero, too large.  An
\* amount held in cents has no more than DECIMAL_PLACES decimals.
AmountChecks(numericAmount, allowNegative, allowZero) ==
  LET negative == IF ~allowNegative /\ numericAmount < 0
                  THEN addError(NewValidationResult, "NEGATIVE_AMOUNT", "MEDIUM", NoContext)
                  ELSE NewValidationResult
      zero == IF ~allowZero /\ numericAmount = 0
              THEN addWarning(negative, "INVALID_AMOUNT", "LOW", NoContext)
              ELSE negative
  IN IF Abs(numericAmount) > MAX_TRANSACTION_AMOUNT
     THEN addWarning(zero, "AMOUNT_TOO_LARGE", "MEDIUM", NoContext)
     ELSE zero

\* validateAmount(amount, options): { valid, error }, for an amount that is
\* null, undefined, NaN or a number
validateAmount(amount, allowNegative, allowZero) ==
  IF amount.t # "num" THEN AmountRequired
  ELSE DateVerdict(AmountChecks(amount.v, allowNegative, allowZero))

\* findings.forEach(err => result.errors.push({ ...err, context })): the
\* findings go into the list as they are, with the context of the caller;
\* nothing else of the result is touched.
WithContext(findings, context) ==
  [i \in 1..Len(findings) |-> [findings[i] EXCEPT !.context = context]]

PushErrors(result, findings, context) ==
  [result EXCEPT !.errors = @ \o WithContext(findings, context)]

PushWarnings(result, findings, context) ==
  [result EXCEPT !.warnings = @ \o WithContext(findings, context)]

FieldContext(index, field) == [transactionIndex |-> index, field |-> field]

\* The four parts of the validator's validateTransaction
DatePart(result, date, index) ==
  IF Len(date) = 0
  THEN addError(result, "MISSING_REQUIRED_FIELD", "HIGH", FieldContext(index, "date"))
  ELSE IF ~validateDate(date, FALSE, TRUE).valid
  THEN PushErrors(result, validateDate(date, FALSE, TRUE).error.errors,
                  [transactionIndex |-> index])
  ELSE result

AmountPart(result, transaction, index) ==
  IF transaction.amount.t = "undef" /\ ~Truthy(transaction.debit) /\ ~Truthy(transaction.credit)
  THEN addError(result, "MISSING_REQUIRED_FIELD", "HIGH", FieldContext(index, "amount"))
  ELSE result

DescriptionPart(result, description, index) ==
  IF Len(description) = 0 THEN result
  ELSE PushWarnings(PushErrors(result, validateDescription(JoinToks(description, 1)).errors,
                               [transactionIndex |-> index]),
                    validateDescription(JoinToks(description, 1)).warnings,
                    [transactionIndex |-> index])

BalancePart(result, balance, index) ==
  IF balance.t # "undef" /\ ~validateAmount(balance, TRUE, TRUE).valid
  THEN PushErrors(result, validateAmount(balance, TRUE, TRUE).error.errors,
                  FieldContext(index, "balance"))
  ELSE result

\* validateTransaction(transaction, index) of the validator
validator_validateTransaction(transaction, index) ==
  BalancePart(DescriptionPart(AmountPart(DatePart(NewValidationResult, transaction.date, index),
                                         transaction, index),
                              transaction.description, index),
              transaction.balance, index)

\* ------------------------------------------------------------------------
\* Inputs: the statement texts, format hints and configuration files the
\* model runs the extractor on
\* ------------------------------------------------------------------------

MaxLines == 2
MaxClock == 1

PurchaseLine == RawLine(<<"01/15/2024", "Grocery", "Store", "Purchase", "45.67", "1,954.33">>, TRUE)
DepositLine == RawLine(<<"01/10/2024", "Salary", "Deposit", "100.00", "1,954.33">>, FALSE)
ZeroLine == RawLine(<<"01/12/2024", "Coffee", "0.00", "500.00">>, FALSE)
BothLine == RawLine(<<"01/12/2024", "Transfer", "20.00", "5.00", "480.00">>, FALSE)
CombinedLine == RawLine(<<"1/5/24", "Refund", "5.00", "C", "575.00">>, FALSE)
SingleLine == RawLine(<<"01/15/2024", "Wire", "100.00">>, TRUE)
ChequeLine == RawLine(<<"01/10/2024", "Cheque", "20.00", "D">>, FALSE)
SalaryLine == RawLine(<<"01/12/2024", "Salary", "100.00", "C">>, FALSE)
CardLine == RawLine(<<"01/15/2024", "Store", "5.00", "D">>, FALSE)
DottedLine == RawLine(<<"15.01.2024", "Wire", "100.00", "500.00">>, FALSE)
ShortLine == RawLine(<<"01/12/2024", "C", "100.00", "500.00">>, FALSE)
OpeningLine == RawLine(<<"Opening", "Balance:", "500.00">>, FALSE)
HeaderLine == RawLine(<<"Date", "Description", "Debit", "Credit", "Balance">>, FALSE)
EmptyLine == RawLine(<<>>, FALSE)
BlanksLine == RawLine(<<>>, TRUE)
ProseLine == RawLine(<<"Thank", "you">>, FALSE)

SampleLines ==
  {PurchaseLine, DepositLine, ZeroLine, BothLine, CombinedLine, ChequeLine,
   OpeningLine, HeaderLine, EmptyLine, BlanksLine}

RECURSIVE Repeat(_, _)
Repeat(l, n) == IF n = 0 THEN <<>> ELSE <<l>> \o Repeat(l, n - 1)

\* Short texts over the sample lines; the empty text is the single line "".
ShortTexts == UNION {[1..n -> SampleLines] : n \in 1..MaxLines}

\* Texts that decide the format: three lines that match a pattern of some
\* format, at the top of the text or across the end of the detection window.
WindowTexts ==
  {Repeat(ProseLine, pad) \o body :
     pad \in {0, DetectLines - 2}, body \in [1..DetectThreshold -> {SingleLine, BothLine}]}

\* Statements of three lines, among them a day-first date, which
\* normalizeDate turns into a month 15, and a description of one letter.
OrderTexts == [1..3 -> {PurchaseLine, DepositLine, DottedLine, ShortLine}]

\* Statements without a balance column, after an opening balance.
LedgerTexts ==
  {<<OpeningLine>> \o body : body \in [1..3 -> {ChequeLine, SalaryLine, CardLine}]}

\* A format a caller passes in for statements without a balance column.
LedgerFormat ==
  [isObject |-> TRUE, bankId |-> "ledger", bankName |-> "Ledger Format",
   patterns |-> << Pattern("combined", "NOBAL_COMBINED", TRUE) >>,
   thousandsSeparator |-> ","]

\* A format object of the caller for statements whose amount column may
\* hold text, and a line of such a statement
TextAmountFormat ==
  [isObject |-> TRUE, bankId |-> "text_amount", bankName |-> "Text Amount Format",
   patterns |-> << Pattern("simple", "TEXT_SIMPLE", TRUE) >>,
   thousandsSeparator |-> ","]
NoAmountLine == RawLine(<<"01/12/2024", "Refund", "N/A", "480.00">>, FALSE)
TextAmountTexts == [1..2 -> {NoAmountLine, DepositLine}]

\* Lines that match a pattern and hold two header keywords, or one
KeywordsLine == RawLine(<<"01/12/2024", "Debit", "Credit", "20.00", "480.00">>, FALSE)
KeywordLine == RawLine(<<"01/12/2024", "Debit", "20.00", "480.00">>, FALSE)
HeaderTexts == [1..2 -> {KeywordsLine, KeywordLine, DepositLine}]

\* A format object of the caller whose pattern has a name of its own, as the
\* bpi pattern of ph_bank has: parseTransactionLine reads no field for it.
ColumnsFormat ==
  [isObject |-> TRUE, bankId |-> "columns", bankName |-> "Columns Format",
   patterns |-> << Pattern("columns", "GEN_SIMPLE", TRUE) >>,
   thousandsSeparator |-> ","]

\* Statements for that format
ColumnTexts == [1..2 -> {DepositLine, ProseLine}]

\* options.bankFormat: absent (null), a bank identifier, or a format object.
NoHint == [given |-> FALSE, format |-> NoFormat]
Hint(format) == [given |-> TRUE, format |-> format]
Hints ==
  {NoHint, Hint(StringAsFormat("us_bank")), Hint(getDefaultBankFormats[1]), Hint(LedgerFormat)}

Inputs ==
  (ShortTexts \X Hints) \cup (WindowTexts \X {NoHint}) \cup (LedgerTexts \X {Hint(LedgerFormat)})
  \cup (OrderTexts \X {NoHint}) \cup (ColumnTexts \X {Hint(ColumnsFormat)})
  \cup (HeaderTexts \X {NoHint}) \cup (TextAmountTexts \X {Hint(TextAmountFormat)})

\* The identifiers extractByBankFormat is called with.
BankIds == {"us_bank", "no_such_bank"}

\* What the configuration file holds: nothing readable, an empty list of
\* formats, formats whose patterns are JSON strings, or formats that are
\* listed by name without patterns.
ConfigFiles == {"missing", "empty", "formats", "names"}

ConfiguredFormats ==
  << [isObject |-> TRUE, bankId |-> "us_bank", bankName |-> "US Bank Format",
      patterns |-> << Pattern("standard", "OPT_STANDARD", FALSE) >>,
      thousandsSeparator |-> ","] >>

NamedFormats ==
  << [isObject |-> TRUE, bankId |-> "us_bank", bankName |-> "US Bank Format",
      patterns |-> <<>>, thousandsSeparator |-> ""] >>

\* JSON.parse(data).formats || []
ConfigFormats(file) ==
  CASE file = "formats" -> ConfiguredFormats
    [] file = "names" -> NamedFormats
    [] OTHER -> <<>>

\* ------------------------------------------------------------------------
\* The state
\* ------------------------------------------------------------------------

VARIABLES
  configFile,      \* what reading the configuration file gives
  bankFormats,     \* the module-level list of loaded formats
  now,             \* Date.now()
  pc,              \* where the call in progress stands
  call,            \* the entry point called, its bankId, and where it goes after the load
  text,            \* the text argument
  hint,            \* options.bankFormat
  formats,         \* the formats loadBankFormats returned to the call
  detectedFormat,  \* the format the lines are parsed with
  lines,           \* the cleaned lines
  lineNumber,      \* the number of lines gone through
  transactions,    \* the transactions parsed so far
  result,          \* the ExtractionResult
  batch,           \* the arguments a function called on its own is given
  report,          \* what that call gave
  loaders,         \* where each concurrent call of loadBankFormats stands
  reads            \* the number of reads of the configuration file begun

vars ==
  <<configFile, bankFormats, now, pc, call, text, hint, formats, detectedFormat,
    lines, lineNumber, transactions, result, batch, report, loaders, reads>>

\* new ExtractionResult()
NewExtractionResult ==
  [success |-> FALSE, transactions |-> <<>>, bankFormat |-> NoFormat,
   totalTransactions |-> 0, validTransactions |-> 0, invalidTransactions |-> 0,
   openingBalance |-> Null, closingBalance |-> Null,
   totalDebits |-> 0, totalCredits |-> 0,
   errors |-> <<>>, warnings |-> <<>>,
   metadata |-> [set |-> FALSE, linesProcessed |-> 0, bankFormat |-> ""]]

\* An entry of result.errors: the properties it has, its code (when it has
\* one), and for a transaction's entry the line and the validation errors.
ResultError(code, fields, line, errors) ==
  [code |-> code, fields |-> fields, line |-> line, errors |-> errors]

NoCall == [fn |-> "", bankId |-> "", then |-> ""]

Idle ==
  /\ pc = "idle" /\ call = NoCall /\ text = <<>> /\ hint = NoHint /\ formats = <<>>
  /\ detectedFormat = NoFormat /\ lines = <<>> /\ lineNumber = 0
  /\ transactions = <<>> /\ result = NewExtractionResult

\* The concurrent callers of loadBankFormats, and one that has not called
MaxCallers == 3
Callers == 1..MaxCallers
NoLoader == [pc |-> "idle", formats |-> <<>>]

\* No check of the validator has been called.
NoReport == [fn |-> "", threw |-> FALSE, result |-> NewValidationResult]

Init ==
  /\ configFile \in ConfigFiles
  /\ bankFormats = <<>>
  /\ now = 0
  /\ Idle
  /\ batch = <<>>
  /\ report = NoReport
  /\ loaders = [c \in Callers |-> NoLoader]
  /\ reads = 0

\* ------------------------------------------------------------------------
\* The entry points and loadBankFormats
\* ------------------------------------------------------------------------

\* extractTransactions(text, options) up to its await
CallExtractTransactions ==
  /\ pc = "idle"
  /\ \E in \in Inputs :
       /\ text' = in[1]
       /\ hint' = in[2]
  /\ call' = [fn |-> "extractTransactions", bankId |-> "", then |-> "detect"]
  /\ result' = NewExtractionResult
  /\ pc' = "load"
  /\ UNCHANGED <<loaders, reads, batch, report, configFile, bankFormats, now, formats, detectedFormat, lines,
                 lineNumber, transactions>>

\* extractByBankFormat(text, bankId) up to its await
CallExtractByBankFormat ==
  /\ pc = "idle"
  /\ \E t \in ShortTexts, id \in BankIds :
       /\ text' = t
       /\ call' = [fn |-> "extractByBankFormat", bankId |-> id, then |-> "lookup"]
  /\ pc' = "load"
  /\ UNCHANGED <<loaders, reads, batch, report, configFile, bankFormats, now, hint, formats, detectedFormat, lines,
                 lineNumber, transactions, result>>

\* loadBankFormats: the formats are loaded already
LoadCached ==
  /\ pc = "load"
  /\ Len(bankFormats) > 0
  /\ formats' = bankFormats
  /\ pc' = call.then
  /\ UNCHANGED <<loaders, reads, batch, report, configFile, bankFormats, now, call, text, hint, detectedFormat, lines,
                 lineNumber, transactions, result>>

\* loadBankFormats: nothing loaded, the file is read (the await)
LoadRead ==
  /\ pc = "load"
  /\ Len(bankFormats) = 0
  /\ pc' = "read"
  /\ UNCHANGED <<loaders, reads, batch, report, configFile, bankFormats, now, call, text, hint, formats, detectedFormat,
                 lines, lineNumber, transactions, result>>

\* The end of a read whose failure leaves the call without formats
ReadDoneWithoutDefaults ==
  /\ pc = "read"
  /\ \/ /\ configFile = "missing"
        /\ formats' = <<>>
        /\ UNCHANGED bankFormats
     \/ /\ configFile # "missing"
        /\ bankFormats' = ConfigFormats(configFile)
        /\ formats' = bankFormats'
  /\ pc' = call.then
  /\ UNCHANGED <<loaders, reads, batch, report, configFile, now, call, text, hint, detectedFormat,
                 lines, lineNumber, transactions, result>>

\* loadBankFormats: the read has ended.  A file that cannot be read or
\* parsed gives the defaults, which are returned and not kept.
ReadDone ==
  /\ pc = "read"
  /\ \/ /\ configFile = "missing"
        /\ formats' = getDefaultBankFormats
        /\ UNCHANGED bankFormats
     \/ /\ configFile # "missing"
        /\ bankFormats' = ConfigFormats(configFile)
        /\ formats' = bankFormats'
  /\ pc' = call.then
  /\ UNCHANGED <<loaders, reads, batch, report, configFile, now, call, text, hint, detectedFormat, lines, lineNumber,
                 transactions, result>>

\* A lookup that takes the first format of the registry, whatever its id
LookupFirstFormat ==
  /\ pc = "lookup"
  /\ IF Len(formats) = 0
     THEN /\ pc' = "thrown"
          /\ UNCHANGED <<hint, call, result>>
     ELSE /\ hint' = Hint(formats[1])
          /\ call' = [call EXCEPT !.then = "detect"]
          /\ result' = NewExtractionResult
          /\ pc' = "load"
  /\ UNCHANGED <<loaders, reads, batch, report, configFile, bankFormats, now, text, formats, detectedFormat,
                 lines, lineNumber, transactions>>

\* extractByBankFormat after the load: formats.find, then the throw or the
\* call of extractTransactions with the format found
LookupFormat ==
  /\ pc = "lookup"
  /\ LET Found == {i \in 1..Len(formats) : formats[i].bankId = call.bankId} IN
     IF Found = {}
     THEN /\ pc' = "thrown"
          /\ UNCHANGED <<hint, call, result>>
     ELSE /\ hint' = Hint(formats[CHOOSE i \in Found : \A j \in Found : i <= j])
          /\ call' = [call EXCEPT !.then = "detect"]
          /\ result' = NewExtractionResult
          /\ pc' = "load"
  /\ UNCHANGED <<loaders, reads, batch, report, configFile, bankFormats, now, text, formats, detectedFormat, lines,
                 lineNumber, transactions>>

\* ------------------------------------------------------------------------
\* extractTransactions after the load
\* ------------------------------------------------------------------------

\* A detection step that reports no unknown format
AfterDetectionQuiet(res, detected, balances) ==
  IF detected.threw
  THEN [res EXCEPT !.success = FALSE,
                   !.errors = Append(@, ResultError("EXTRACTION_FAILED",
                                          {"code", "message", "details"}, 0, <<>>))]
  ELSE IF ~detected.found
  THEN res
  ELSE [res EXCEPT !.bankFormat = detected.format,
                   !.openingBalance = balances.opening,
                   !.closingBalance = balances.closing]

\* What the detection step leaves in result, for what was detected
AfterDetection(res, detected, balances) ==
  IF detected.threw
  THEN [res EXCEPT !.success = FALSE,
                   !.errors = Append(@, ResultError("EXTRACTION_FAILED",
                                          {"code", "message", "details"}, 0, <<>>))]
  ELSE IF ~detected.found
  THEN [res EXCEPT !.errors = Append(@, ResultError("UNKNOWN_FORMAT",
                                          {"code", "message"}, 0, <<>>))]
  ELSE [res EXCEPT !.bankFormat = detected.format,
                   !.openingBalance = balances.opening,
                   !.closingBalance = balances.closing]

DetectedAs(detected) ==
  /\ result' = AfterDetection(result, detected, extractBalances(text))
  /\ pc' = IF detected.threw \/ ~detected.found THEN "done" ELSE "parse"
  /\ detectedFormat' = IF detected.threw \/ ~detected.found THEN detectedFormat
                       ELSE detected.format
  /\ lines' = IF detected.threw \/ ~detected.found THEN lines ELSE cleanText(text)

\* options.bankFormat || detectBankFormat(text, formats), the check of the
\* format, cleanText and extractBalances.  A throw of detectBankFormat lands
\* in the catch block.
DetectFormat ==
  /\ pc = "detect"
  /\ DetectedAs(IF hint.given
                THEN [threw |-> FALSE, found |-> TRUE, format |-> hint.format]
                ELSE detectBankFormat(text, formats))
  /\ lineNumber' = 0
  /\ transactions' = <<>>
  /\ UNCHANGED <<loaders, reads, batch, report, configFile, bankFormats, now, call, text, hint, formats>>

\* A validation that leaves the processingStatus of the constructor
ValidatedUnmarked(transaction, validation) ==
  IF validation.valid
  THEN [transaction EXCEPT !.processingStatus = "VALID"]
  ELSE [transaction EXCEPT
          !.errorMessages = [i \in 1..Len(validation.errors) |-> validation.errors[i].code]]

\* The processingStatus and errorMessages validation gives a transaction
Validated(transaction, validation) ==
  IF validation.valid
  THEN [transaction EXCEPT !.processingStatus = "VALID"]
  ELSE [transaction EXCEPT
          !.processingStatus = IF Len(validation.warnings) > 0 THEN "WARNING" ELSE "ERROR",
          !.errorMessages = [i \in 1..Len(validation.errors) |-> validation.errors[i].code]]

\* A count that reports a failed validation as a failure of the extraction
CountedAsFailure(res, validation, line) ==
  IF validation.valid
  THEN [res EXCEPT !.validTransactions = @ + 1]
  ELSE [res EXCEPT
          !.invalidTransactions = @ + 1,
          !.errors = IF Len(validation.errors) > 0
                     THEN Append(@, ResultError("EXTRACTION_FAILED",
                                      {"code", "message", "details"}, 0, <<>>))
                     ELSE @]

\* The counts and errors validation leaves in result
Counted(res, validation, line) ==
  IF validation.valid
  THEN [res EXCEPT !.validTransactions = @ + 1]
  ELSE [res EXCEPT
          !.invalidTransactions = @ + 1,
          !.errors = IF Len(validation.errors) > 0
                     THEN Append(@, ResultError("", {"line", "transaction", "errors"},
                                      line, validation.errors))
                     ELSE @]

\* if (transaction) { validate, count, push }
Collect(transaction, validation) ==
  /\ transactions' = Append(transactions, Validated(transaction, validation))
  /\ result' = Counted(result, validation, lineNumber + 1)

ParsedAs(line, parsed) ==
  IF Len(line) = 0 \/ isHeaderLine(line) \/ ~parsed.found
  THEN UNCHANGED <<transactions, result>>
  ELSE Collect(parsed.transaction, validateTransaction(parsed.transaction))

\* One turn of the loop over the lines
ParseLine ==
  /\ pc = "parse"
  /\ lineNumber < Len(lines)
  /\ lineNumber' = lineNumber + 1
  /\ ParsedAs(lines[lineNumber + 1],
              parseTransactionLine(lines[lineNumber + 1], detectedFormat, lineNumber + 1, now))
  /\ UNCHANGED <<loaders, reads, batch, report, configFile, bankFormats, now, pc, call, text, hint, formats,
                 detectedFormat, lines>>

\* A result that counts as a success whatever it holds
ProcessedAsSuccess(processed) ==
  /\ transactions' = processed
  /\ result' = [result EXCEPT !.transactions = processed,
                              !.totalTransactions = Len(processed),
                              !.success = TRUE]

Processed(processed) ==
  /\ transactions' = processed
  /\ result' = [result EXCEPT !.transactions = processed,
                              !.totalTransactions = Len(processed),
                              !.success = Len(processed) > 0]

\* After the loop: postProcessTransactions, totalTransactions, success
PostProcess ==
  /\ pc = "parse"
  /\ lineNumber = Len(lines)
  /\ Processed(postProcessTransactions(transactions, result.openingBalance))
  /\ pc' = "totals"
  /\ UNCHANGED <<loaders, reads, batch, report, configFile, bankFormats, now, call, text, hint, formats, detectedFormat,
                 lines, lineNumber>>

RECURSIVE SumOf(_, _, _)
SumOf(arr, field, i) ==
  IF i > Len(arr) THEN 0
  ELSE (IF Truthy(arr[i][field]) THEN arr[i][field].v ELSE 0) + SumOf(arr, field, i + 1)

\* The totals and the metadata, and the return
Totals ==
  /\ pc = "totals"
  /\ result' = [result EXCEPT
        !.totalDebits = SumOf(result.transactions, "debit", 1),
        !.totalCredits = SumOf(result.transactions, "credit", 1),
        !.metadata = [set |-> TRUE, linesProcessed |-> lineNumber,
                      bankFormat |-> detectedFormat.bankName]]
  /\ pc' = "done"
  /\ UNCHANGED <<loaders, reads, batch, report, configFile, bankFormats, now, call, text, hint, formats, detectedFormat,
                 lines, lineNumber, transactions>>

\* The caller has the result (or the exception); the next call may start.
Return ==
  /\ pc \in {"done", "thrown"}
  /\ pc' = "idle" /\ call' = NoCall /\ text' = <<>> /\ hint' = NoHint /\ formats' = <<>>
  /\ detectedFormat' = NoFormat /\ lines' = <<>> /\ lineNumber' = 0
  /\ transactions' = <<>> /\ result' = NewExtractionResult
  /\ UNCHANGED <<loaders, reads, batch, report, configFile, bankFormats, now>>

\* Time passes while the lines are parsed.
Tick ==
  /\ pc = "parse"
  /\ now < MaxClock
  /\ now' = now + 1
  /\ UNCHANGED <<loaders, reads, batch, report, configFile, bankFormats, pc, call, text, hint, formats, detectedFormat,
                 lines, lineNumber, transactions, result>>

Next ==
  \/ CallExtractTransactions
  \/ CallExtractByBankFormat
  \/ LoadCached
  \/ LoadRead
  \/ ReadDone
  \/ LookupFormat
  \/ DetectFormat
  \/ ParseLine
  \/ PostProcess
  \/ Totals
  \/ Return
  \/ Tick

Spec == Init /\ [][Next]_vars

\* The code after the await runs to its end without waiting: the loop
\* over the lines, the post-processing and the totals.  One of these steps
\* is possible whenever the call stands in them, and they are the steps
\* that move the line number or the place of the call on; their weak
\* fairness, WF_vars(ParseLine \/ PostProcess \/ Totals), is written out
\* with that.
Running == pc \in {"parse", "totals"}
RunStep == Running /\ (lineNumber' # lineNumber \/ pc' # pc)
SpecRun == Spec /\ ([]<>~Running \/ []<><<RunStep>>_vars)

\* ------------------------------------------------------------------------
\* The validator's checks, called on their own with a list of transactions
\* ------------------------------------------------------------------------

MaxBatch == 3

\* A transaction as the checks read it: date, description, amount, balance
Entry(date, description, amount, balance) ==
  [NewTransaction EXCEPT !.date = date, !.description = description,
                         !.amount = amount, !.balance = balance]

\* Transactions that differ in amount and balance.  A Transaction without a
\* balance holds null; a plain object may leave the property out.
BalanceEntries ==
  {Entry(Spell["2024-01-20"], <<"Coffee">>, amount, balance) :
     amount \in {Num(-2000), Null, Undef},
     balance \in {Undef, Null, Num(50000), Num(48000), Num(48002), Num(48003)}}

\* Transactions that differ in date, amount and description
DuplicateEntries ==
  {Entry(date, description, amount, Null) :
     date \in {Spell["2024-01-20"], <<>>},
     description \in {<<"Coffee">>, <<"Salary">>},
     amount \in {Num(-2000), Null}}

BatchesOf(entries) == UNION {[1..n -> entries] : n \in 0..MaxBatch}

Report(fn, returned) == [fn |-> fn, threw |-> returned.threw, result |-> returned.result]

CallValidateBalanceConsistency ==
  /\ report = NoReport
  /\ \E b \in BatchesOf(BalanceEntries) :
       /\ batch' = b
       /\ report' = Report("validateBalanceConsistency", validateBalanceConsistency(b))
  /\ UNCHANGED <<loaders, reads, configFile, bankFormats, now, pc, call, text, hint, formats,
                 detectedFormat, lines, lineNumber, transactions, result>>

CallDetectDuplicates ==
  /\ report = NoReport
  /\ \E b \in BatchesOf(DuplicateEntries) :
       /\ batch' = b
       /\ report' = Report("detectDuplicates", detectDuplicates(b))
  /\ UNCHANGED <<loaders, reads, configFile, bankFormats, now, pc, call, text, hint, formats,
                 detectedFormat, lines, lineNumber, transactions, result>>

\* Transactions that differ in what validateTransaction reads: a date that
\* is missing, not a date, in the future or in range; a description; an
\* amount; a balance that is left out, null or a number
ValidatedEntries ==
  {Entry(date, description, amount, balance) :
     date \in {<<>>, Spell["2024-01-20"], Spell["12/31/2031"],
               <<"2", "0", "2", "4", "-", "1", "5", "-", "0", "1">>},
     description \in {<<>>, <<"Coffee">>, <<"Fee">>},
     amount \in {Num(-2000), Undef},
     balance \in {Undef, Null, Num(50000)}}

CallValidateTransaction ==
  /\ report = NoReport
  /\ \E transaction \in ValidatedEntries, index \in 0..1 :
       /\ batch' = <<transaction, index>>
       /\ report' = Report("validateTransaction",
                           Returned(validator_validateTransaction(transaction, index)))
  /\ UNCHANGED <<loaders, reads, configFile, bankFormats, now, pc, call, text, hint, formats,
                 detectedFormat, lines, lineNumber, transactions, result>>

\* The caller has the report; the next check may be called.
ReturnReport ==
  /\ report.fn # ""
  /\ batch' = <<>>
  /\ report' = NoReport
  /\ UNCHANGED <<loaders, reads, configFile, bankFormats, now, pc, call, text, hint, formats,
                 detectedFormat, lines, lineNumber, transactions, result>>

InitValidator == Init /\ configFile = "missing"

NextValidator ==
  \/ CallValidateBalanceConsistency
  \/ CallDetectDuplicates
  \/ CallValidateTransaction
  \/ ReturnReport

SpecValidator == InitValidator /\ [][NextValidator]_vars

\* ------------------------------------------------------------------------
\* normalizeDate and parseTransactionLine, called on their own
\* ------------------------------------------------------------------------

\* The groups and separators the date strings are put together from
DateGroups == {<<"1">>, <<"0", "1">>, <<"1", "5">>, <<"2", "4">>, <<"2", "0", "2", "4">>}
DateSeparators == {"/", "-", "."}

\* Three groups and two separators, and the missing date
DateStrings ==
  {a \o <<s1>> \o b \o <<s2>> \o c :
     a \in DateGroups, b \in DateGroups, c \in DateGroups,
     s1 \in DateSeparators, s2 \in DateSeparators} \cup {<<>>}

\* A string value, and the value a date of the model stands for
Str(s) == [t |-> "str", v |-> s]
DateValue(date) == IF Len(date) = 0 THEN Null ELSE Str(date)

CallNormalizeDate ==
  /\ report.fn = ""
  /\ \E dateStr \in DateStrings :
       /\ batch' = <<Str(dateStr)>>
       /\ report' = [fn |-> "normalizeDate", threw |-> FALSE,
                     result |-> DateValue(normalizeDate(dateStr))]
  /\ UNCHANGED <<loaders, reads, configFile, bankFormats, now, pc, call, text, hint, formats,
                 detectedFormat, lines, lineNumber, transactions, result>>

\* The cleaned lines parseTransactionLine is called with, and the formats
\* Descriptions of one or two words, with and without keywords
Words ==
  {"Grocery", "Purchase", "Salary", "Deposit", "Coffee", "Wire", "Refund", "ATM",
   "Transfer", "Out", "Interest", "Payment", "Fee", "Debit"}
Descriptions == {<<w>> : w \in Words} \cup {<<w1, w2>> : w1 \in Words, w2 \in Words}

\* Lines of a date, a description, an amount and a balance
DescribedLines ==
  {<<"01/12/2024">> \o d \o <<amount, "480.00">> : d \in Descriptions, amount \in {"20.00", "0.00"}}

ParseLines ==
  {l.toks : l \in SampleLines \cup {DottedLine, ShortLine, SingleLine, SalaryLine}}
    \cup DescribedLines
ParseFormats ==
  {getDefaultBankFormats[i] : i \in 1..Len(getDefaultBankFormats)}
    \cup {ConfiguredFormats[i] : i \in 1..Len(ConfiguredFormats)}

\* The same line parsed twice, at the times first and second
CallParseTransactionLine ==
  /\ report.fn = ""
  /\ \E line \in ParseLines, format \in ParseFormats, first \in 0..MaxClock, second \in 0..MaxClock :
       /\ batch' = <<line, format, first, second>>
       /\ report' = [fn |-> "parseTransactionLine", threw |-> FALSE,
                     result |-> <<parseTransactionLine(line, format, 1, first),
                                  parseTransactionLine(line, format, 1, second)>>]
  /\ UNCHANGED <<loaders, reads, configFile, bankFormats, now, pc, call, text, hint, formats,
                 detectedFormat, lines, lineNumber, transactions, result>>

\* categorizeTransaction(description, currentType); "" is the type of a
\* transaction that has none yet (null)
CallCategorizeTransaction ==
  /\ report.fn = ""
  /\ \E description \in Descriptions, currentType \in {"", "DEBIT", "CREDIT"} :
       /\ batch' = <<description, currentType>>
       /\ report' = [fn |-> "categorizeTransaction", threw |-> FALSE,
                     result |-> categorizeTransaction(description, currentType)]
  /\ UNCHANGED <<loaders, reads, configFile, bankFormats, now, pc, call, text, hint, formats,
                 detectedFormat, lines, lineNumber, transactions, result>>

\* Dates as YYYY-MM-DD: a week and more after the day of the run, ten
\* years and more before it, and between the two
Pad2(n) == IF n < 10 THEN <<"0">> \o Digits(n) ELSE Digits(n)
IsoDate(y, m, d) == Digits(y) \o <<"-">> \o Pad2(m) \o <<"-">> \o Pad2(d)
FutureDates ==
  {IsoDate(Today.y, Today.m, Today.d + MAX_FUTURE_DAYS + 1), IsoDate(Today.y + 5, 12, 31)}
OldDates ==
  {IsoDate(Today.y - MAX_PAST_YEARS - 1, 12, 31), IsoDate(Today.y - MAX_PAST_YEARS - 6, 1, 15)}
RecentDates ==
  {IsoDate(Today.y, Today.m, Today.d + MAX_FUTURE_DAYS), IsoDate(Today.y, Today.m, Today.d),
   IsoDate(Today.y - 2, 1, 15), IsoDate(Today.y - MAX_PAST_YEARS, 1, 2)}

\* validateDate(dateStr, { allowFuture, allowOld }); the options left out
\* are allowFuture = false and allowOld = true
CallValidateDate ==
  /\ report.fn = ""
  /\ \E dateStr \in FutureDates \cup OldDates \cup RecentDates \cup {<<"2", "0", "2", "4", "-", "1", "5", "-", "0", "1">>, <<>>},
        allowFuture \in BOOLEAN, allowOld \in BOOLEAN :
       /\ batch' = <<DateValue(dateStr), allowFuture, allowOld>>
       /\ report' = [fn |-> "validateDate", threw |-> FALSE,
                     result |-> validateDate(dateStr, allowFuture, allowOld)]
  /\ UNCHANGED <<loaders, reads, configFile, bankFormats, now, pc, call, text, hint, formats,
                 detectedFormat, lines, lineNumber, transactions, result>>

InitParsing == Init /\ configFile = "missing"

NextParsing ==
  \/ CallNormalizeDate
  \/ CallParseTransactionLine
  \/ CallCategorizeTransaction
  \/ CallValidateDate
  \/ ReturnReport

SpecParsing == InitParsing /\ [][NextParsing]_vars

\* ------------------------------------------------------------------------
\* loadBankFormats called by several extractions at once.  A call runs up
\* to its await, and on after the read has ended; between the two any other
\* call may run.
\* ------------------------------------------------------------------------

MaxReads == 3

Handed(list) == [pc |-> "handed", formats |-> list]

\* A load that adds the formats of the file to those of the registry
Appended(registry, file) == registry \o ConfigFormats(file)

\* bankFormats = config.formats || []
Assigned(registry, file) == ConfigFormats(file)

\* if (bankFormats.length > 0) return bankFormats
LoadBankFormatsCached(c) ==
  /\ loaders[c].pc = "idle"
  /\ Len(bankFormats) > 0
  /\ loaders' = [loaders EXCEPT ![c] = Handed(bankFormats)]
  /\ UNCHANGED <<reads, configFile, bankFormats, now, pc, call, text, hint, formats,
                 detectedFormat, lines, lineNumber, transactions, result, batch, report>>

\* await fs.readFile(configPath, 'utf-8')
LoadBankFormatsRead(c) ==
  /\ loaders[c].pc = "idle"
  /\ Len(bankFormats) = 0
  /\ reads < MaxReads
  /\ loaders' = [loaders EXCEPT ![c].pc = "read"]
  /\ reads' = reads + 1
  /\ UNCHANGED <<configFile, bankFormats, now, pc, call, text, hint, formats,
                 detectedFormat, lines, lineNumber, transactions, result, batch, report>>

\* The read has ended: the formats of the file are kept and returned
LoadBankFormatsParsed(c) ==
  /\ loaders[c].pc = "read"
  /\ configFile # "missing"
  /\ bankFormats' = Assigned(bankFormats, configFile)
  /\ loaders' = [loaders EXCEPT ![c] = Handed(bankFormats')]
  /\ UNCHANGED <<reads, configFile, now, pc, call, text, hint, formats,
                 detectedFormat, lines, lineNumber, transactions, result, batch, report>>

\* The read has failed: the defaults are returned and not kept
LoadBankFormatsFailed(c) ==
  /\ loaders[c].pc = "read"
  /\ configFile = "missing"
  /\ loaders' = [loaders EXCEPT ![c] = Handed(getDefaultBankFormats)]
  /\ UNCHANGED <<reads, configFile, bankFormats, now, pc, call, text, hint, formats,
                 detectedFormat, lines, lineNumber, transactions, result, batch, report>>

\* The extraction that called has finished with the formats.
LoadBankFormatsReturned(c) ==
  /\ loaders[c].pc = "handed"
  /\ loaders' = [loaders EXCEPT ![c] = NoLoader]
  /\ UNCHANGED <<reads, configFile, bankFormats, now, pc, call, text, hint, formats,
                 detectedFormat, lines, lineNumber, transactions, result, batch, report>>

NextLoad ==
  \/ \E c \in Callers : LoadBankFormatsCached(c)
  \/ \E c \in Callers : LoadBankFormatsRead(c)
  \/ \E c \in Callers : LoadBankFormatsParsed(c)
  \/ \E c \in Callers : LoadBankFormatsFailed(c)
  \/ \E c \in Callers : LoadBankFormatsReturned(c)

SpecLoad == Init /\ [][NextLoad]_vars

\* ------------------------------------------------------------------------
\* The claims
\* ------------------------------------------------------------------------

\* One side of a transaction is set: the other is null, and amount is the
\* set side with its sign.
OneSided(t) ==
  \/ t.debit.t # "null" /\ t.credit.t = "null" /\ t.amount = Num(-t.debit.v)
  \/ t.credit.t # "null" /\ t.debit.t = "null" /\ t.amount = Num(t.credit.v)

\* C1: every transaction parseTransactionLine produces, under the standard,
\* simple or combined pattern, has exactly one of debit and credit non-null,
\* and amount equals -debit when debit is set and +credit when credit is set.
\* The code breaks this on a line with both columns filled and on a line
\* with a zero amount.
C1_ExactlyOneSide ==
  \A i \in 1..Len(transactions) : OneSided(transactions[i])

\* The sum of the amounts of the first i transactions, a null amount being 0
RECURSIVE SumOfAmounts(_, _)
SumOfAmounts(arr, i) ==
  IF i = 0 THEN 0
  ELSE SumOfAmounts(arr, i - 1) + (IF arr[i].amount.t = "num" THEN arr[i].amount.v ELSE 0)

\* C2: when no parsed transaction carries a balance of its line and an
\* opening balance B0 was extracted, post-processing leaves the i-th
\* transaction of the result with balance B0 + the sum of the amounts of
\* transactions 1..i, for every i.
C2_RunningBalance ==
  [][(/\ pc = "parse" /\ pc' = "totals"
      /\ \A i \in 1..Len(transactions) : transactions[i].balance.t = "null"
      /\ result.openingBalance.t = "num")
     => (/\ Len(result'.transactions) = Len(transactions)
         /\ \A i \in 1..Len(result'.transactions) :
              result'.transactions[i].balance =
                Num(result.openingBalance.v + SumOfAmounts(result'.transactions, i)))]_vars

\* C2 witness: scenario B, opening balance 500.00 and amounts -20.00,
\* +100.00, -5.00 without balances, returned with 480.00, 580.00, 575.00.
C2_Witness ==
  /\ pc = "done"
  /\ result.openingBalance = Num(50000)
  /\ Len(result.transactions) = 3
  /\ [i \in 1..3 |-> result.transactions[i].amount] = <<Num(-2000), Num(10000), Num(-500)>>
  /\ [i \in 1..3 |-> result.transactions[i].balance] = <<Num(48000), Num(58000), Num(57500)>>
  /\ \A i \in 1..3 : Len(RegexMatch("NOBAL_COMBINED", result.transactions[i].rawLine, FALSE).g[5]) = 0

\* A transaction carries a balance: a number, neither null nor left out
CarriesBalance(t) == t.balance.t = "num"

\* The warnings of the report that name the transaction at index i
WarningsAt(i) ==
  {k \in 1..Len(report.result.warnings) :
     report.result.warnings[k].context.transactionIndex = i}

\* C3: validateBalanceConsistency emits exactly one BALANCE_MISMATCH warning
\* of severity MEDIUM with transactionIndex i for each adjacent pair
\* (i-1, i) in which both transactions carry a balance and
\* |prev.balance + curr.amount - curr.balance| > 0.02, no warning for any
\* other pair (within tolerance, or a balance absent), and never an error.
\* The code breaks this when a balance is null: the pair is compared with
\* the null read as 0, and a null current balance makes the call throw.
C3_BalanceWarnings ==
  report.fn = "validateBalanceConsistency" =>
    /\ ~report.threw
    /\ Len(report.result.errors) = 0
    /\ \A k \in 1..Len(report.result.warnings) :
         /\ report.result.warnings[k].code = "BALANCE_MISMATCH"
         /\ report.result.warnings[k].severity = "MEDIUM"
    /\ \A i \in 1..(Len(batch) - 1) :
         IF CarriesBalance(batch[i]) /\ CarriesBalance(batch[i + 1])
         THEN batch[i + 1].amount.t = "num" =>
                Cardinality(WarningsAt(i)) =
                  IF Abs(batch[i].balance.v + batch[i + 1].amount.v - batch[i + 1].balance.v)
                       > BALANCE_TOLERANCE
                  THEN 1 ELSE 0
         ELSE WarningsAt(i) = {}

\* Two transactions with the identical (date, amount, description) tuple
SameTuple(a, b) ==
  a.date = b.date /\ a.amount = b.amount /\ a.description = b.description

\* The indices before j that hold the tuple of the transaction at index j
EarlierSame(j) == {i \in 0..(j - 1) : SameTuple(batch[i + 1], batch[j + 1])}

DetectionRan ==
  call.fn = "extractTransactions" /\ ~hint.given /\ pc \in {"parse", "totals", "done"}

\* Every pattern of the registry is a regular expression.
RegExpsOnly ==
  \A f \in 1..Len(formats) : \A p \in 1..Len(formats[f].patterns) :
    formats[f].patterns[p].isRegExp

\* The matches of the patterns of a format over the first 50 lines of the text
WindowMatches(format) ==
  Cardinality({<<l, p>> \in (1..Len(text)) \X (1..Len(format.patterns)) :
                 l <= 50 /\ RegexMatch(format.patterns[p].re, text[l].toks, text[l].wide).ok})

\* The formats with at least 3 matches, and the generic formats, by their
\* place in the registry
Reaching == {f \in 1..Len(formats) : WindowMatches(formats[f]) >= 3}
Generics == {f \in 1..Len(formats) : formats[f].bankId = "generic"}

\* The place in the registry of the format detection is to return
PlaceOf(reaching, generics) ==
  IF reaching # {} THEN MinOf(reaching)
  ELSE IF generics # {} THEN MinOf(generics)
  ELSE 1

FormatsNamed(id) == {f \in 1..Len(formats) : formats[f].bankId = id}

\* C6: given an explicit hint in options.bankFormat, a bank identifier or a
\* format object, extractTransactions bypasses detection and parses the
\* lines with the patterns of the registry format the hint designates.
\* The code takes a bank identifier for the format itself, which has no
\* patterns.
C6_HintDesignates ==
  (call.fn = "extractTransactions" /\ hint.given /\ pc \in {"parse", "totals", "done"}) =>
    IF hint.format.isObject THEN detectedFormat.patterns = hint.format.patterns
    ELSE \A f \in FormatsNamed(hint.format.bankId) :
           detectedFormat.patterns = formats[f].patterns

\* C7: extractByBankFormat(text, bankId) fails with a format-not-found
\* condition, without running any extraction, when no registry format has
\* that bankId; when the id is known it extracts with exactly that format.
C7_ByBankFormat ==
  call.fn = "extractByBankFormat" =>
    /\ pc = "thrown" =>
         /\ FormatsNamed(call.bankId) = {}
         /\ ~hint.given /\ result = NewExtractionResult
         /\ Len(lines) = 0 /\ lineNumber = 0 /\ Len(transactions) = 0
    /\ call.then = "detect" =>
         /\ FormatsNamed(call.bankId) # {}
         /\ hint = Hint(formats[MinOf(FormatsNamed(call.bankId))])
    /\ pc \in {"parse", "totals", "done"} =>
         /\ call.then = "detect"
         /\ detectedFormat = hint.format
         /\ result.bankFormat = hint.format

\* C7 witness: a call with a known id has returned transactions parsed with
\* the format of that id.
C7_Witness ==
  /\ call.fn = "extractByBankFormat" /\ call.bankId = "us_bank"
  /\ pc = "done"
  /\ result.success
  /\ detectedFormat.bankId = "us_bank"
  /\ Len(detectedFormat.patterns) > 0

\* C8: when no format can be determined at all (no hint, and detection
\* yields none, which it does for an empty registry), extractTransactions
\* returns success = false, exactly one top-level error, and an empty
\* transaction list.
C8_UnknownFormat ==
  (DetectionRan /\ Len(formats) = 0) =>
    /\ pc = "done"
    /\ ~result.success
    /\ Len(result.errors) = 1
    /\ result.errors[1].code = "UNKNOWN_FORMAT"
    /\ result.errors[1].line = 0
    /\ Len(result.transactions) = 0
    /\ result.totalTransactions = 0

\* C8 witness: a statement line, no hint and an empty registry
C8_Witness ==
  /\ DetectionRan /\ Len(formats) = 0
  /\ pc = "done"
  /\ Len(text) = 1 /\ Len(text[1].toks) > 0
  /\ Len(result.errors) = 1

\* C9: in every result extractTransactions returns, success is true if and
\* only if totalTransactions > 0, and totalTransactions equals the length
\* of the returned transactions list.
C9_SuccessIffTransactions ==
  pc = "done" =>
    /\ result.success <=> result.totalTransactions > 0
    /\ result.totalTransactions = Len(result.transactions)

\* C9 witness: a successful result with two transactions
C9_Witness ==
  /\ pc = "done"
  /\ result.success
  /\ result.totalTransactions = 2
  /\ Len(result.transactions) = 2

\* C10: for empty or whitespace-only text, extractTransactions returns
\* success = false, zero transactions, and a finding of the
\* NO_TRANSACTIONS class recorded as a warning in the result.  The code
\* records no warning in the result.
C10_EmptyInput ==
  (/\ call.fn = "extractTransactions" /\ pc = "done"
   /\ \A l \in 1..Len(text) : Len(text[l].toks) = 0) =>
    /\ ~result.success
    /\ Len(result.transactions) = 0
    /\ result.totalTransactions = 0
    /\ Len(result.warnings) > 0

\* The day of a transaction's date, as the Date constructor reads it
ValidDay(t) == DateOf(t).ok

\* C11: the transactions extractTransactions returns are ordered by date in
\* non-decreasing order, and transactions with equal dates keep the order
\* of their lines; this for every input, also with a transaction whose date
\* could not be normalized.  Stated here for the transactions whose dates
\* can be read.  The code leaves readable dates out of order around a date
\* that reads as Invalid Date.
C11_OrderedByDate ==
  pc = "done" =>
    \A i \in 1..Len(result.transactions) : \A j \in (i + 1)..Len(result.transactions) :
      (ValidDay(result.transactions[i]) /\ ValidDay(result.transactions[j])) =>
        \/ DateOf(result.transactions[i]).day < DateOf(result.transactions[j]).day
        \/ /\ DateOf(result.transactions[i]).day = DateOf(result.transactions[j]).day
           /\ result.transactions[i].lineNumber < result.transactions[j].lineNumber

\* Two digits, the separator, two digits, the separator, four digits
MonthDayYear(d, sep) ==
  /\ Len(d) = 10
  /\ \A i \in {1, 2, 4, 5, 7, 8, 9, 10} : d[i] \in Digit
  /\ d[3] = sep /\ d[6] = sep

\* Four digits, a dash, two digits, a dash, two digits
YearMonthDay(d) ==
  /\ Len(d) = 10
  /\ \A i \in {1, 2, 3, 4, 6, 7, 9, 10} : d[i] \in Digit
  /\ d[5] = "-" /\ d[8] = "-"

\* What normalizeDate is to give for the string d
Normalized(d, out) ==
  IF YearMonthDay(d) THEN out = Str(d)
  ELSE IF \E sep \in DateSeparators : MonthDayYear(d, sep)
  THEN /\ out.t = "str"
       /\ YearMonthDay(out.v)
       /\ SubSeq(out.v, 1, 4) = SubSeq(d, 7, 10)
       /\ SubSeq(out.v, 6, 7) = SubSeq(d, 1, 2)
       /\ SubSeq(out.v, 9, 10) = SubSeq(d, 4, 5)
  ELSE out = Str(d)

FailsRequired(t) ==
  \/ ~validateDate(t.date, FALSE, TRUE).valid
  \/ ~Truthy(t.debit) /\ ~Truthy(t.credit)

\* C14: every parsed transaction that fails the validation of its required
\* fields is kept with processingStatus ERROR, and invalidTransactions
\* counts these transactions.
C14_InvalidIsError ==
  /\ \A i \in 1..Len(transactions) :
       FailsRequired(transactions[i]) => transactions[i].processingStatus = "ERROR"
  /\ pc = "parse" =>
       result.invalidTransactions =
         Cardinality({i \in 1..Len(transactions) : FailsRequired(transactions[i])})

\* The findings of validateDescription on a transaction's description
DescriptionFindings(t) == validateDescription(JoinToks(t.description, 1))

\* A transaction whose required fields are valid and whose only findings
\* are warnings about its description
WarningsOnly(t) ==
  /\ ~FailsRequired(t)
  /\ ~hasErrors(DescriptionFindings(t))
  /\ Len(DescriptionFindings(t).warnings) > 0

\* C15: every parsed transaction with warnings only and no error is kept
\* with processingStatus WARNING, and validTransactions counts the
\* transactions without an error.
C15_WarningStatus ==
  /\ \A i \in 1..Len(transactions) :
       WarningsOnly(transactions[i]) => transactions[i].processingStatus = "WARNING"
  /\ pc = "parse" =>
       result.validTransactions =
         Cardinality({i \in 1..Len(transactions) : ~FailsRequired(transactions[i])})

\* The properties every finding is to carry
FindingFields == {"code", "message", "severity", "context"}

\* An entry is the finding with the code, or holds it among the validation
\* errors it wraps, with the four properties
Carries(entry, code) ==
  \/ entry.code = code /\ FindingFields \subseteq entry.fields
  \/ \E j \in 1..Len(entry.errors) :
       entry.errors[j].code = code /\ FindingFields \subseteq entry.errors[j].fields

Present(list, code) == \E k \in 1..Len(list) : Carries(list[k], code)

\* The codes of the errors and of the warnings validation finds on t
ErrorCodesOf(t) ==
  (IF ~validateDate(t.date, FALSE, TRUE).valid THEN {"INVALID_DATE_FORMAT"} ELSE {})
    \cup (IF ~Truthy(t.debit) /\ ~Truthy(t.credit) THEN {"MISSING_AMOUNT"} ELSE {})
    \cup {DescriptionFindings(t).errors[k].code : k \in 1..Len(DescriptionFindings(t).errors)}

WarningCodesOf(t) ==
  {DescriptionFindings(t).warnings[k].code : k \in 1..Len(DescriptionFindings(t).warnings)}

\* C16: when extractTransactions returns, every error validation found on
\* a transaction is in result.errors and every warning in result.warnings,
\* each with code, message, severity and context.
C16_FindingsKept ==
  pc = "done" =>
    \A i \in 1..Len(result.transactions) :
      /\ \A code \in ErrorCodesOf(result.transactions[i]) : Present(result.errors, code)
      /\ \A code \in WarningCodesOf(result.transactions[i]) : Present(result.warnings, code)

\* Two transactions of the returned list share date, amount and description.
Repeated(list) ==
  \E i \in 1..Len(list) : \E j \in (i + 1)..Len(list) :
    /\ list[i].date = list[j].date
    /\ list[i].amount = list[j].amount
    /\ list[i].description = list[j].description

\* C17: every run of extractTransactions that finds a format has passed
\* through every stage when it is done, the detection of duplicates among
\* them: the returned list has been searched for duplicates as a whole and
\* a repeated transaction is reported as DUPLICATE_TRANSACTION.
C17_EveryStage ==
  (pc = "done" /\ detectedFormat # NoFormat /\ Repeated(result.transactions)) =>
    \E k \in 1..Len(result.warnings) : result.warnings[k].code = "DUPLICATE_TRANSACTION"

\* C18: the registry is initialized at most once: over a configuration
\* file that holds formats, the calls of loadBankFormats, however they
\* overlap, begin one read of the file between them.
C18_SingleLoad ==
  configFile \in {"formats", "names"} => reads <= 1

\* C19: when the configuration file cannot be read, the list handed to
\* detectBankFormat is the built-in default set: between one and three
\* formats, the generic format among them.  A file that can be read hands
\* on the formats it lists, which may be none.
C19_Fallback ==
  pc = "detect" =>
    /\ configFile = "missing" =>
         /\ Len(formats) \in 1..3
         /\ \E i \in 1..Len(formats) : formats[i].bankId = "generic"
         /\ formats = getDefaultBankFormats
    /\ configFile # "missing" => formats = ConfigFormats(configFile)

\* A call is about to detect the format with the defaults of a failed read.
C19_Witness ==
  /\ pc = "detect"
  /\ configFile = "missing"
  /\ Len(bankFormats) = 0
  /\ Len(formats) = 3

\* C19 as stated: the list handed to detectBankFormat is never empty.
C19_NeverEmpty == pc = "detect" => Len(formats) > 0

\* The formats a call of loadBankFormats gives when no other call runs
AloneFormats ==
  IF configFile = "missing" THEN getDefaultBankFormats ELSE ConfigFormats(configFile)

\* C20: calls that overlap at the load are independent: every call is
\* handed the formats it is handed when it runs alone, and no step of any
\* call changes a registry that has been loaded.
C20_Independent ==
  /\ [](\A c \in Callers : loaders[c].pc = "handed" => loaders[c].formats = AloneFormats)
  /\ [][Len(bankFormats) > 0 => bankFormats' = bankFormats]_vars

\* Two calls have read the file at the same time and both have their
\* formats; the registry is loaded.
C20_Witness ==
  /\ reads >= 2
  /\ Len(bankFormats) > 0
  /\ loaders[1].pc = "handed" /\ loaders[2].pc = "handed"

\* C21: within one run of extractTransactions no two transactions, of the
\* list being built or of the result, have the same transactionId.
C21_UniqueIds ==
  /\ \A i \in 1..Len(transactions) : \A j \in (i + 1)..Len(transactions) :
       transactions[i].transactionId # transactions[j].transactionId
  /\ \A i \in 1..Len(result.transactions) : \A j \in (i + 1)..Len(result.transactions) :
       result.transactions[i].transactionId # result.transactions[j].transactionId

\* A result holds two transactions parsed within the same millisecond.
C21_Witness ==
  /\ pc = "done"
  /\ \E i \in 1..Len(result.transactions) : \E j \in (i + 1)..Len(result.transactions) :
       result.transactions[i].transactionId.ms = result.transactions[j].transactionId.ms

\* The outflow keywords, and a description that contains one of them in
\* whatever case
OutflowKeywords ==
  {"withdrawal", "payment", "purchase", "fee", "charge", "debit", "transfer out", "atm"}
ContainsOutflow(description) ==
  \E k \in OutflowKeywords : includes(toLowerCase(JoinToks(description, 1)), Keyword[k])

\* The first pattern of the format that matches the line is its simple one.
SimpleFirst(line, format) ==
  /\ MatchingPatterns(line, format) # {}
  /\ format.patterns[MinOf(MatchingPatterns(line, format))].name = "simple"

\* The sides of the transaction t parsed from a line whose description and
\* amount are given
SidedBy(t, description, amount) ==
  IF ContainsOutflow(description)
  THEN t.debit = amount /\ t.credit = Null
  ELSE t.credit = amount /\ t.debit = Null

\* C22: a line parsed by the simple pattern of its format gives a
\* transaction whose amount is its debit when the description contains an
\* outflow keyword, in any case, and its credit otherwise; the line
\* 01/15/2024 Grocery Store Purchase 45.67 1,954.33 gives the date
\* 2024-01-15, the debit 45.67 and the balance 1954.33.
C22_SimplePattern ==
  (report.fn = "parseTransactionLine" /\ SimpleFirst(batch[1], batch[2])) =>
    /\ report.result[1].found
    /\ SidedBy(report.result[1].transaction,
               SubSeq(batch[1], 2, Len(batch[1]) - 2),
               parseAmount(<<batch[1][Len(batch[1]) - 1]>>, batch[2]))
    /\ batch[1] = PurchaseLine.toks =>
         /\ report.result[1].transaction.date = <<"2", "0", "2", "4", "-", "0", "1", "-", "1", "5">>
         /\ report.result[1].transaction.debit = Num(4567)
         /\ report.result[1].transaction.balance = Num(195433)

\* The purchase line has been parsed by the simple pattern, as a debit.
C22_Witness ==
  /\ report.fn = "parseTransactionLine"
  /\ SimpleFirst(batch[1], batch[2])
  /\ batch[1] = PurchaseLine.toks
  /\ report.result[1].transaction.debit = Num(4567)

\* The categories in their order of priority
Priority == <<"FEE", "INTEREST", "TRANSFER", "ATM", "PAYMENT", "DEPOSIT", "PURCHASE">>

\* A keyword of the category is a substring of the description, whatever
\* the case
HasKeywordOf(description, category) ==
  \E c \in 1..Len(Categories) :
    /\ Categories[c].category = category
    /\ \E k \in 1..Len(Categories[c].keywords) :
         includes(toLowerCase(JoinToks(description, 1)), Keyword[Categories[c].keywords[k]])

\* The places in the order of priority of the categories that match
Hits(description) == {p \in 1..Len(Priority) : HasKeywordOf(description, Priority[p])}

\* category is the first in the order of priority among the hits
FirstOf(hits, category) ==
  \E p \in hits : Priority[p] = category /\ \A q \in hits : p <= q

HeaderWords ==
  {"Date", "Description", "Debit", "Credit", "Balance", "Transaction", "Amount",
   "Reference", "Page", "Statement", "Account"}
KeywordsIn(line) ==
  LET lower == toLowerCase(JoinToks(line, 1))
  IN Cardinality({w \in HeaderWords : includes(lower, toLowerCase(Keyword[w]))})

\* The line is blank or holds two header keywords or more.
Skipped(line) == Len(line) = 0 \/ KeywordsIn(line) >= 2

\* The transactions that come from line k
FromLine(k) == {i \in 1..Len(transactions) : transactions[i].lineNumber = k}

\* The transaction pushed last comes from line k
LastFromLine(k) ==
  Len(transactions) > 0 /\ transactions[Len(transactions)].lineNumber = k

\* What the loop has made of line k: a transaction only when the line is
\* not skipped, and none only when the line is skipped or the parser
\* cannot parse it
LineOutcome(line, k) ==
  IF LastFromLine(k)
  THEN ~Skipped(line) /\ transactions[Len(transactions)].rawLine = line
  ELSE Skipped(line) \/ ~parseTransactionLine(line, detectedFormat, k, 0).found

\* C24: no transaction comes from a blank line or from a line with two or
\* more header keywords, also when the line matches a pattern of the
\* format; every other line that the parser can parse gives its
\* transaction.  In the loop this is checked for the line gone through
\* last and the transaction pushed last, and after it for every
\* transaction of the result.
C24_HeadersSkipped ==
  /\ (pc = "parse" /\ lineNumber > 0) =>
       LineOutcome(lines[lineNumber], lineNumber)
  /\ pc \in {"totals", "done"} =>
       \A i \in 1..Len(result.transactions) : ~Skipped(result.transactions[i].rawLine)

\* A line with two header keywords that matches a pattern has been gone
\* through and has given no transaction; a line with one keyword has.
C24_Witness ==
  /\ pc = "parse"
  /\ lineNumber = 2
  /\ KeywordsIn(lines[1]) = 2
  /\ parseTransactionLine(lines[1], detectedFormat, 1, 0).found
  /\ FromLine(1) = {}
  /\ KeywordsIn(lines[2]) = 1
  /\ FromLine(2) # {}

\* The amount the normalizer gives for the amount column of a line parsed
\* by a simple pattern
AmountOf(line, format) == parseAmount(<<line[Len(line) - 1]>>, format)

\* C25: a line whose required amount the normalizer gives as null adds no
\* transaction: every transaction parsed by a simple pattern has an
\* amount that is not null, and no error in the result is about a line
\* whose amount is null.
C25_NullAmountDiscarded ==
  /\ \A i \in 1..Len(transactions) :
       SimpleFirst(transactions[i].rawLine, detectedFormat)
         => AmountOf(transactions[i].rawLine, detectedFormat) # Null
  /\ pc = "parse" =>
       \A k \in 1..Len(result.errors) :
         (result.errors[k].line > 0 /\ SimpleFirst(lines[result.errors[k].line], detectedFormat))
           => AmountOf(lines[result.errors[k].line], detectedFormat) # Null

\* Every transaction of the list after is a transaction of the list
\* before, with every field as it was
SameTransactions(before, after) ==
  /\ Len(after) = Len(before)
  /\ \A i \in 1..Len(after) : \E j \in 1..Len(before) : after[i] = before[j]

\* C26: when a parsed transaction carries the balance of its line, or no
\* opening balance was found, post-processing fills in nothing: every
\* transaction comes out with the balance and the notes it went in with.
C26_NoBackFill ==
  [][(/\ pc = "parse" /\ pc' = "totals"
      /\ \/ \E i \in 1..Len(transactions) : transactions[i].balance # Null
         \/ result.openingBalance = Null)
     => SameTransactions(transactions, result'.transactions)]_vars

\* An opening balance was found and the lines carry balances: the result
\* has them as they were read, without a note.
C26_Witness ==
  /\ pc = "done"
  /\ result.openingBalance = Num(50000)
  /\ Len(result.transactions) >= 1
  /\ \A i \in 1..Len(result.transactions) :
       /\ result.transactions[i].balance = Num(195433)
       /\ result.transactions[i].notes = 0

\* validateDate has been called on a string with the options left out
DefaultDateCall ==
  report.fn = "validateDate" /\ batch[1].t = "str" /\ ~batch[2] /\ batch[3]

\* A finding with this code and severity is in the list
Reports(findings, code, severity) ==
  \E i \in 1..Len(findings) : findings[i].code = code /\ findings[i].severity = severity

TopLevelErrors(res) == SelectSeq(res.errors, LAMBDA e : e.code # "")

\* The entry is a finding on the transaction parsed last
OnLastTransaction(e, parsed, line) ==
  /\ e.code = "" /\ e.fields = {"line", "transaction", "errors"}
  /\ e.line = line /\ Len(e.errors) > 0
  /\ Len(parsed) > 0 /\ parsed[Len(parsed)].lineNumber = line
  /\ parsed[Len(parsed)].processingStatus # "VALID"

\* A step that brings an error of the extraction as a whole into the
\* result is the detection step, and ends the call without transactions
FatalAtDetection ==
  Len(TopLevelErrors(result')) > Len(TopLevelErrors(result))
    => (pc = "detect" /\ pc' = "done" /\ ~result'.success /\ result'.transactions = <<>>)

\* A step after the format is chosen that changes result.errors adds one
\* entry, for the transaction just parsed, and the loop goes on
FindingAfterDetection ==
  (pc \in {"parse", "totals"} /\ result'.errors # result.errors)
    => (/\ pc = "parse" /\ pc' = "parse"
        /\ Len(result'.errors) = Len(result.errors) + 1
        /\ SubSeq(result'.errors, 1, Len(result.errors)) = result.errors
        /\ OnLastTransaction(result'.errors[Len(result'.errors)], transactions', lineNumber'))

\* C28: not finding a format is the only fatal outcome.  No step of
\* extractTransactions throws (the one throw is the lookup of
\* extractByBankFormat, before extractTransactions is called); an error
\* of the extraction as a whole comes into the result at the detection
\* step only, which ends the call; and once a format is chosen every
\* error that comes into the result is a finding on the transaction just
\* parsed, and the run goes on to its end, where the metadata is set.
C28_OnlyDetectionFatal ==
  /\ [][pc' = "thrown" => pc = "lookup"]_vars
  /\ [][FatalAtDetection]_vars
  /\ [][FindingAfterDetection]_vars
  /\ [](pc \in {"parse", "totals"} => TopLevelErrors(result) = <<>>)
  /\ ((pc = "parse") ~> (pc = "done" /\ result.metadata.set))

\* A run that went on to its end after a transaction failed validation:
\* the failure is an entry for the line, and nothing stands for the whole.
C28_Witness ==
  /\ pc = "done" /\ result.metadata.set
  /\ Len(result.errors) > 0
  /\ TopLevelErrors(result) = <<>>
  /\ result.success

\* The places in the list of the transactions the loop counted as valid,
\* and as invalid: those validateTransaction finds valid, and the others
CountedValid(list) == {i \in 1..Len(list) : validateTransaction(list[i]).valid}
CountedInvalid(list) == {i \in 1..Len(list) : ~validateTransaction(list[i]).valid}

\* C29: in every result returned, validTransactions + invalidTransactions
\* = totalTransactions; the two counts are those of the transactions found
\* valid and invalid; every transaction counted as invalid has a
\* processingStatus other than VALID and every one counted as valid has
\* VALID or WARNING.
C29_CountsAddUp ==
  pc = "done" =>
    /\ result.validTransactions + result.invalidTransactions = result.totalTransactions
    /\ result.totalTransactions = Len(result.transactions)
    /\ result.validTransactions = Cardinality(CountedValid(result.transactions))
    /\ result.invalidTransactions = Cardinality(CountedInvalid(result.transactions))
    /\ \A i \in CountedInvalid(result.transactions) :
         result.transactions[i].processingStatus # "VALID"
    /\ \A i \in CountedValid(result.transactions) :
         result.transactions[i].processingStatus \in {"VALID", "WARNING"}

\* A result with a transaction counted as valid and one counted as invalid
C29_Witness ==
  /\ pc = "done"
  /\ result.validTransactions = 1 /\ result.invalidTransactions = 1
  /\ result.totalTransactions = 2
  /\ \E i \in 1..2 : result.transactions[i].processingStatus # "VALID"

\* C30: every ValidationResult the validator's functions return has
\* valid = false exactly when its errors are not empty.
C30_ValidIffNoErrors ==
  (report.fn \in {"validateTransaction", "validateBalanceConsistency", "detectDuplicates"}
     /\ ~report.threw)
    => (~report.result.valid <=> Len(report.result.errors) > 0)

====
